---- MODULE Spec2Model ----
(***************************************************************************)
(* Model of the acquisition and price-integrity pipeline of SteamBundleAPI *)
(* (scraper/database.py, scraper/scraper.py, scraper/main_with_db.py).     *)
(*                                                                         *)
(* Python's None is the empty tuple <<>> and a present value v is <<v>>,   *)
(* so that "x != y" of the source is tuple inequality here.  Money is kept *)
(* in cents.                                                               *)
(***************************************************************************)
EXTENDS Integers, Sequences, FiniteSets, TLC

VARIABLES
    store,      \* table 'bundles': stored id -> row (database.py:14-41)
    clock,      \* datetime.utcnow(), a logical clock
    lastCall,   \* history variable: the last completed save_bundle call
    prevCall,   \* history variable: the call completed before lastCall
    sess,       \* one AsyncSession per concurrent save_bundle call
    store0,     \* history variable: the table when the concurrent calls began
    now,            \* time.time(), in seconds
    blocked_until,  \* BundleScraper.blocked_until
    sem,            \* free permits of BundleScraper._semaphore
    waiters,        \* callers queued on the semaphore, first come first
    call,           \* the concurrent scrape_* calls on the scraper
    blockBy,        \* history variable: the response that set blocked_until
    fa,             \* the scrape_all_bundles call
    run,            \* a pipeline run: main_with_db.main or scrape_incremental
    mapped,         \* the mapping of one 200 response into records
    analysis,       \* one BundleModel.get_real_discount call
    diff,           \* one discover_with_diff run
    scan,           \* one BundleDiscovery.brute_force_scan call
    browser,        \* one BrowserScraper.scrape_multiple_bundles call
    cron,           \* the cron_scraper invocations and their lock file
    bundle_games,   \* columns games and games_count of table 'bundles'
    filter_service  \* one BundleFilter instance and the calls made on it

toolvars == <<analysis, diff, scan, browser, cron, bundle_games,
              filter_service>>

dbvars == <<store, clock, lastCall, prevCall, sess, store0, run, mapped,
            toolvars>>

\* Everything but toolvars.
corevars == <<store, clock, lastCall, prevCall, sess, store0, run, mapped,
              now, blocked_until, sem, waiters, call, blockBy, fa>>

scvars == <<now, blocked_until, sem, waiters, call, blockBy>>

vars == <<store, clock, lastCall, prevCall, sess, store0,
          now, blocked_until, sem, waiters, call, blockBy, fa, run,
          mapped, analysis, diff, scan, browser, cron, bundle_games,
          filter_service>>

----------------------------------------------------------------------------
(* Bounds *)

MaxSaves == 3       \* save_bundle calls of one sequential run
MaxId    == 2       \* bundle ids are 1..MaxId
NumCallers == 3     \* concurrent scrape_* calls on one BundleScraper
MaxTime  == 3       \* the clock of the concurrent scraper runs stops here
MaxIds   == 250     \* longest identifier list given to scrape_all_bundles
MaxBatch == 2       \* longest list of records a fetch hands to a pipeline run
MaxItems == 2       \* longest store_items list of a 200 response
MaxHist  == 3       \* longest price_history given to get_real_discount
MaxKnownId == 4     \* discovery finds bundle ids in 1..MaxKnownId
MaxScanEnd == 4     \* brute_force_scan is called with end <= MaxScanEnd
MaxScanBatch == 2   \* and with batch_size <= MaxScanBatch
MaxBrowserIds == 4  \* scrape_multiple_bundles gets at most so many ids
NumCron == 3        \* invocations of cron_scraper.check_and_run

\* ScrapingConfig.MAX_CONCURRENT_REQUESTS, the capacity of the semaphore.
\* config.py:45 sets 5; the runs here use a capacity of 2, below the number
\* of callers, so that callers do queue on the semaphore.
MAX_CONCURRENT_REQUESTS == 2

\* Program constants (scraper.py, config.py)
DEFAULT_RETRY_AFTER == 60   \* headers.get('Retry-After', 60)
FORBIDDEN_BLOCK == 120      \* time.time() + 120
BLOCKED_SLEEP_CAP == 5      \* asyncio.sleep(min(5, remaining))
batch_size == 100           \* scrape_all_bundles
REQUEST_DELAY == 2          \* ScrapingConfig.REQUEST_DELAY
MAX_RETRIES == 3            \* ScrapingConfig.MAX_RETRIES
WINDOW_DAYS == 30           \* timedelta(days=30) of get_real_discount
MIN_HISTORY == 2            \* len(self.price_history) < 2

NoBlock == [kind |-> "none", status |-> 0, seconds |-> 0]

NoFetchAll == [pc |-> "idle", n |-> 0, i |-> 0, issued |-> << >>,
               resp |-> << >>, got |-> << >>]

NoRun == [pc |-> "idle", path |-> "none", removed |-> {},
          bundles |-> << >>, batch |-> << >>, k |-> 0, saved_count |-> 0,
          bundles_failed |-> << >>]

NoMapping == [pc |-> "idle", kind |-> "none", store_items |-> << >>,
              out |-> << >>]

\* A tool that is not in use.
NoTool == [pc |-> "idle"]

\* No analysis, discovery or browser call is under way.
IdleTools ==
    /\ analysis = NoTool
    /\ diff = NoTool
    /\ scan = NoTool
    /\ browser = NoTool
    /\ cron = NoTool
    /\ bundle_games = NoTool /\ filter_service = NoTool

Min(a, b) == IF a < b THEN a ELSE b

Ids == 1..MaxId

None == <<>>
Some(v) == <<v>>

----------------------------------------------------------------------------
(* Candidate records handed to Database.save_bundle (bundle_data).         *)
(* price is None (not a dict) or a dict; a missing 'price' key reads as    *)
(* the dict with final = None, discount = 0, currency = 'BRL'              *)
(* (database.py:265-270).  Every producer of candidates writes the 'name'  *)
(* key (scraper.py:161,279, mapper.py:33), with a name or with None.       *)

Finals     == {None, Some(800), Some(1000)}
Originals  == {None, Some(1000)}
Discounts  == {0, 20}
Currencies == {"BRL", "USD"}

\* Every combination in the default currency, and one price in another.
PriceDicts ==
    [final : Finals, original : Originals, discount : Discounts,
     currency : {"BRL"}]
        \cup [final : {Some(800)}, original : {Some(1000)}, discount : {20},
              currency : Currencies \ {"BRL"}]

\* Every price under one name, and two candidates whose name is None.
Candidates ==
    [name : {Some("n")}, price : {None} \cup {Some(p) : p \in PriceDicts}]
        \cup [name : {None},
              price : {None, Some([final |-> Some(1000),
                                   original |-> Some(1000),
                                   discount |-> 0, currency |-> "BRL"])}]

\* Candidates of the concurrent runs: a valid price, two price levels.
PriceDictsConc ==
    { [final |-> Some(1000), original |-> Some(1000), discount |-> 0,
       currency |-> "BRL"],
      [final |-> Some(800), original |-> Some(1000), discount |-> 20,
       currency |-> "BRL"] }

CandidatesConc ==
    [name : {Some("n")}, price : {Some(p) : p \in PriceDictsConc}]

----------------------------------------------------------------------------
(* BundleModel, in memory *)

\* BundleModel(...) of the new-bundle branch: the name comes from the
\* candidate; the price columns, currency and price_history are not passed
\* to the constructor and read as None until the INSERT applies the column
\* defaults.
NewBundle(cand) ==
    [name |-> cand.name,
     final_price |-> None, original_price |-> None, discount |-> None,
     currency |-> None, price_history |-> None, last_updated |-> None,
     first_seen |-> None]

\* BundleModel.add_price_snapshot: builds the snapshot from the arguments
\* and from self.currency as it is at the call, and appends it to the list
\* held by self.price_history (a None history becomes [] first).
add_price_snapshot(b, final, original, discount, ts) ==
    LET history  == IF b.price_history = None THEN <<>>
                    ELSE b.price_history[1]
        snapshot == [date |-> ts, final |-> final, original |-> original,
                     discount |-> discount, currency |-> b.currency]
    IN  [b EXCEPT !.price_history = Some(Append(history, snapshot))]

\* The guard with an extra test that a price was already stored.
PriceChanged_needsOldPrice(b, final, discount) ==
    /\ final # None
    /\ b.final_price # None
    /\ (b.final_price # final \/ b.discount # Some(discount))

\* The guard of database.py:273.
PriceChanged(b, final, discount) ==
    /\ final # None
    /\ (b.final_price # final \/ b.discount # Some(discount))

\* last_updated is written when the object is created only.
Stamp_onCreate(b, ts) ==
    IF b.last_updated = None THEN [b EXCEPT !.last_updated = Some(ts)] ELSE b

\* bundle.last_updated = datetime.datetime.utcnow() (database.py:281)
Stamp(b, ts) == [b EXCEPT !.last_updated = Some(ts)]

\* database.py:249,264-281: the name, the price block and last_updated,
\* applied to the in-memory object b (a loaded row or NewBundle, whose name
\* is the candidate's already).
Merge(b, cand, ts) ==
    LET b1 ==
          IF cand.price = None THEN b
          ELSE LET p  == cand.price[1]
                   b0 == IF PriceChanged(b, p.final, p.discount)
                         THEN add_price_snapshot(b, p.final[1], p.original,
                                                 p.discount, ts)
                         ELSE b
               IN  [b0 EXCEPT !.final_price = p.final,
                              !.original_price = p.original,
                              !.discount = Some(p.discount),
                              !.currency = Some(p.currency)]
    IN  Stamp([b1 EXCEPT !.name = cand.name], ts)

----------------------------------------------------------------------------
(* The unit of work: what the commit of session.begin() writes *)

\* INSERT of a new object: every attribute that is not None is written, a
\* None attribute takes the column default (discount 0, currency 'BRL',
\* price_history [], first_seen utcnow; database.py:26-41).
InsertRow(b, ts) ==
    [name           |-> b.name,
     final_price    |-> b.final_price,
     original_price |-> b.original_price,
     discount       |-> IF b.discount = None THEN Some(0) ELSE b.discount,
     currency       |-> IF b.currency = None THEN Some("BRL") ELSE b.currency,
     price_history  |-> IF b.price_history = None THEN Some(<<>>)
                        ELSE b.price_history,
     last_updated   |-> b.last_updated,
     first_seen     |-> IF b.first_seen = None THEN Some(ts)
                        ELSE b.first_seen]

\* Whether the flush sees the price_history attribute of a loaded object as
\* changed.  price_history is a plain Column(JSON) (database.py:41), without
\* mutation tracking; add_price_snapshot appends to the very list that was
\* loaded and assigns that same list back (database.py:64-66).  The unit of
\* work compares the attribute with the value it held before the
\* assignment, which is the same, already extended, list: they are equal,
\* and the column is left out of the UPDATE.  Only a row whose history was
\* NULL gets a new list object, which does differ from what was loaded.
HistoryDirty(loaded, b) ==
    loaded.price_history = None /\ b.price_history # None

\* UPDATE of a loaded object: only the columns whose value differs from the
\* loaded one are written; the others keep what the table holds ts.
UpdateRow(row, loaded, b) ==
    [name           |-> IF b.name # loaded.name THEN b.name ELSE row.name,
     final_price    |-> IF b.final_price # loaded.final_price
                        THEN b.final_price ELSE row.final_price,
     original_price |-> IF b.original_price # loaded.original_price
                        THEN b.original_price ELSE row.original_price,
     discount       |-> IF b.discount # loaded.discount
                        THEN b.discount ELSE row.discount,
     currency       |-> IF b.currency # loaded.currency
                        THEN b.currency ELSE row.currency,
     price_history  |-> IF HistoryDirty(loaded, b)
                        THEN b.price_history ELSE row.price_history,
     last_updated   |-> IF b.last_updated # loaded.last_updated
                        THEN b.last_updated ELSE row.last_updated,
     first_seen     |-> row.first_seen]

\* session.get(BundleModel, id): the row, or None.
SessionGet(st, id) == IF id \in DOMAIN st THEN Some(st[id]) ELSE None

\* The table after the commit of a session that had loaded `loaded`.
\* An INSERT of an id that is in the table by ts violates the primary key:
\* the transaction is rolled back and the table is unchanged.
Commit(st, id, loaded, cand, ts) ==
    IF loaded = None
    THEN IF id \in DOMAIN st THEN st
         ELSE [i \in DOMAIN st \cup {id} |->
                 IF i = id
                 THEN InsertRow(Merge(NewBundle(cand), cand, ts), ts)
                 ELSE st[i]]
    ELSE [st EXCEPT ![id] = UpdateRow(st[id], loaded[1],
                                      Merge(loaded[1], cand, ts))]

\* Whether that commit raises (IntegrityError on the duplicate key).
CommitRaises(st, id, loaded) == loaded = None /\ id \in DOMAIN st

\* Database.save_bundle run without interruption.
SaveResult(st, id, cand, ts) == Commit(st, id, SessionGet(st, id), cand, ts)

----------------------------------------------------------------------------
(* Sequential runs: save_bundle awaited call after call *)

\* A completed call: its arguments, the row found by session.get (before)
\* and the refreshed row it returned (ret).
NoCall ==
    [n |-> 0, id |-> 0, cand |-> [name |-> None, price |-> None],
     before |-> None,
     ret |-> None]

\* Database(): an empty table, no call made.
FreshDb ==
    /\ store = << >>
    /\ clock = 1
    /\ lastCall = NoCall
    /\ prevCall = NoCall
    /\ sess = << >>
    /\ store0 = << >>
    /\ run = NoRun
    /\ mapped = NoMapping
    /\ IdleTools

\* BundleScraper.__aenter__ (scraper.py:27-35): all permits free, no block.
FreshScraper ==
    /\ now = 1
    /\ blocked_until = 0
    /\ sem = MAX_CONCURRENT_REQUESTS
    /\ waiters = << >>
    /\ call = << >>
    /\ blockBy = NoBlock
    /\ fa = NoFetchAll

InitDb == FreshDb /\ FreshScraper

\* await db.save_bundle(bundle_data): get, merge, commit, refresh, return.
save_bundle(id, cand) ==
    /\ lastCall.n < MaxSaves
    /\ store' = SaveResult(store, id, cand, clock)
    /\ clock' = clock + 1
    /\ prevCall' = lastCall
    /\ lastCall' = [n |-> lastCall.n + 1, id |-> id, cand |-> cand,
                    before |-> SessionGet(store, id),
                    ret |-> SessionGet(store', id)]
    /\ UNCHANGED <<sess, store0, scvars, toolvars, fa, mapped, run>>

NextDb == \E id \in Ids, cand \in Candidates : save_bundle(id, cand)

Spec == InitDb /\ [][NextDb]_vars

----------------------------------------------------------------------------
(* Concurrent runs: two save_bundle coroutines, each with its own session. *)
(* A call is suspended at `await session.get` and at the commit that ends  *)
(* `async with session.begin()`; session.get is a plain SELECT, so nothing *)
(* stops another call from reading or writing the row in between.          *)

NumProcs == 2
Procs == 1..NumProcs

IdleSess ==
    [pc |-> "idle", id |-> 0, cand |-> [name |-> None, price |-> None],
     loaded |-> None,
     raised |-> FALSE]

\* The tables a run can start from: empty, or holding one saved bundle.
StartStores ==
    {<< >>} \cup {SaveResult(<< >>, 1, c, 1) : c \in CandidatesConc}

InitConc ==
    /\ store \in StartStores
    /\ store0 = store
    /\ clock = 2
    /\ lastCall = NoCall
    /\ prevCall = NoCall
    /\ sess = [p \in Procs |-> IdleSess]
    /\ run = NoRun
    /\ mapped = NoMapping
    /\ IdleTools
    /\ FreshScraper

\* database.py:229-232: open the session and the transaction, read the row.
SaveBegin(p, id, cand) ==
    /\ sess[p].pc = "idle"
    /\ sess' = [sess EXCEPT ![p] = [pc |-> "loaded", id |-> id, cand |-> cand,
                                    loaded |-> SessionGet(store, id),
                                    raised |-> FALSE]]
    /\ UNCHANGED <<store, clock, lastCall, prevCall, store0, scvars, toolvars, fa,
                   mapped, run>>

\* database.py:234-288: merge in memory, commit, refresh and return; or the
\* commit raises and the call propagates the error.
SaveCommit(p) ==
    /\ sess[p].pc = "loaded"
    /\ store' = Commit(store, sess[p].id, sess[p].loaded, sess[p].cand, clock)
    /\ sess' = [sess EXCEPT ![p].pc = "done",
                            ![p].raised = CommitRaises(store, sess[p].id,
                                                       sess[p].loaded)]
    /\ clock' = clock + 1
    /\ UNCHANGED <<lastCall, prevCall, store0, scvars, toolvars, fa, mapped, run>>

NextConc ==
    \/ \E p \in Procs, id \in Ids, cand \in CandidatesConc :
          SaveBegin(p, id, cand)
    \/ \E p \in Procs : SaveCommit(p)

SpecConc == InitConc /\ [][NextConc]_vars

----------------------------------------------------------------------------
(* BundleScraper: concurrent scrape_bundles_batch / scrape_bundle_details  *)
(* calls sharing the semaphore and blocked_until.                          *)

Callers == 1..NumCallers

\* The Retry-After header of a response: absent, a number of seconds, or an
\* HTTP-date (value seconds after the response).
NoHeader == [kind |-> "absent", value |-> 0]

RetryHeaders ==
    {NoHeader} \cup [kind : {"seconds"}, value : {1, 30}]
               \cup [kind : {"date"}, value : {30}]

NetworkError == 0   \* session.get raises (timeout, connection reset)

\* What upstream answers: a status with, on 429, a Retry-After header.
Responses ==
    [status : {200, 403, 500, NetworkError}, retry : {NoHeader}]
        \cup [status : {429}, retry : RetryHeaders]

\* int(response.headers.get('Retry-After', 60)): the default when the header
\* is absent, the number when it is one, ValueError for anything else.
ParseRetryAfter(h) ==
    CASE h.kind = "absent"  -> [ok |-> TRUE, value |-> DEFAULT_RETRY_AFTER]
      [] h.kind = "seconds" -> [ok |-> TRUE, value |-> h.value]
      [] OTHER              -> [ok |-> FALSE, value |-> 0]

\* Each block adds to the block already running.
NewBlockedUntil_accumulated(old, t, duration) ==
    (IF old > t THEN old ELSE t) + duration

\* self.blocked_until = time.time() + retry_after (scraper.py:115,121,238,245)
NewBlockedUntil(old, t, duration) == t + duration

\* The status branches of scraper.py:111-123,199-205 and 233-247,313-320:
\* what the handler does with response r at time t.  throttled: it sets
\* blocked_until and sleeps `sleep` seconds before it returns empty;
\* otherwise it returns at once, with data only on a 200.
Outcome(r, t, bu) ==
    LET parsed == ParseRetryAfter(r.retry)
    IN  CASE r.status = 429 /\ parsed.ok ->
               [throttled |-> TRUE, sleep |-> parsed.value, result |-> "empty",
                blocked_until |-> NewBlockedUntil(bu, t, parsed.value)]
          [] r.status = 403 ->
               [throttled |-> TRUE, sleep |-> FORBIDDEN_BLOCK,
                result |-> "empty",
                blocked_until |-> NewBlockedUntil(bu, t, FORBIDDEN_BLOCK)]
          [] r.status = 200 ->
               [throttled |-> FALSE, sleep |-> 0, result |-> "data",
                blocked_until |-> bu]
          [] OTHER ->
               [throttled |-> FALSE, sleep |-> 0, result |-> "empty",
                blocked_until |-> bu]

\* The semaphore hands out a permit without waiting.
PermitFree_always(free, queue) == TRUE

\* A free permit goes to whoever asks, queued callers or not.
PermitFree_barging(free, queue) == free > 0

\* asyncio.Semaphore.acquire returns at once when a permit is free and
\* nobody is queued.
PermitFree(free, queue) == free > 0 /\ queue = << >>

\* A call: which method, where it stands, when its sleep ends and what it
\* returned.
\* attempts is history: the upstream requests the call has sent.
IdleCall ==
    [kind |-> "none", pc |-> "idle", wake |-> 0, attempts |-> 0,
     result |-> "none"]

InitScraper ==
    /\ FreshDb
    /\ now = 1
    /\ blocked_until = 0
    /\ sem = MAX_CONCURRENT_REQUESTS
    /\ waiters = << >>
    /\ call = [c \in Callers |-> IdleCall]
    /\ blockBy = NoBlock
    /\ fa = NoFetchAll

\* `async with self._semaphore` and session.get: the request goes out now
\* if a permit is free, else the caller queues.
EnterLimiter(c, kind) ==
    IF PermitFree(sem, waiters)
    THEN /\ sem' = sem - 1
         /\ call' = [call EXCEPT ![c].kind = kind, ![c].pc = "http",
                                 ![c].attempts = @ + 1]
         /\ UNCHANGED waiters
    ELSE /\ waiters' = Append(waiters, c)
         /\ call' = [call EXCEPT ![c].kind = kind, ![c].pc = "acquire"]
         /\ UNCHANGED sem

\* Calls are numbered in the order in which they are made: call c is made
\* once every call of a lower number has been made.
InCallOrder(c) == \A b \in Callers : b < c => call[b].pc # "idle"

\* scrape_bundles_batch, up to the request (scraper.py:217-232): no test of
\* blocked_until.
StartBatch(c) ==
    /\ call[c].pc = "idle"
    /\ InCallOrder(c)
    /\ EnterLimiter(c, "batch")
    /\ UNCHANGED <<now, blocked_until, blockBy, fa, dbvars>>

\* scrape_bundle_details, up to the request (scraper.py:91-110): a blocked
\* scraper makes the call sleep min(5, remaining) and return None.
StartDetails(c) ==
    /\ call[c].pc = "idle"
    /\ InCallOrder(c)
    /\ IF now < blocked_until
       THEN /\ call' = [call EXCEPT
                  ![c].kind = "details", ![c].pc = "sleep_blocked",
                  ![c].wake = now + Min(BLOCKED_SLEEP_CAP, blocked_until - now)]
            /\ UNCHANGED <<sem, waiters>>
       ELSE EnterLimiter(c, "details")
    /\ UNCHANGED <<now, blocked_until, blockBy, fa, dbvars>>

\* The first queued caller gets a released permit and sends its request.
Acquire(c) ==
    /\ call[c].pc = "acquire"
    /\ waiters # << >> /\ Head(waiters) = c
    /\ sem > 0
    /\ sem' = sem - 1
    /\ waiters' = Tail(waiters)
    /\ call' = [call EXCEPT ![c].pc = "http", ![c].attempts = @ + 1]
    /\ UNCHANGED <<now, blocked_until, blockBy, fa, dbvars>>

\* The response (or the network error) arrives and the handler runs up to
\* its return or up to its throttle sleep, during which it keeps the permit.
Respond(c, r) ==
    /\ call[c].pc = "http"
    /\ LET o == Outcome(r, now, blocked_until)
       IN  /\ blocked_until' = o.blocked_until
           /\ IF o.throttled
              THEN /\ call' = [call EXCEPT ![c].pc = "sleep_throttle",
                                           ![c].wake = now + o.sleep]
                   /\ blockBy' = [kind |-> call[c].kind, status |-> r.status,
                                  seconds |-> o.sleep]
                   /\ UNCHANGED sem
              ELSE /\ call' = [call EXCEPT ![c].pc = "done",
                                           ![c].result = o.result]
                   /\ sem' = sem + 1
                   /\ UNCHANGED blockBy
    /\ UNCHANGED <<now, waiters, fa, dbvars>>

\* asyncio.sleep(retry_after) is over: return [] / None, release the permit.
WakeThrottle(c) ==
    /\ call[c].pc = "sleep_throttle"
    /\ now >= call[c].wake
    /\ call' = [call EXCEPT ![c].pc = "done", ![c].result = "empty"]
    /\ sem' = sem + 1
    /\ UNCHANGED <<now, blocked_until, waiters, blockBy, fa, dbvars>>

\* asyncio.sleep(min(5, remaining)) is over: return None.
WakeBlocked(c) ==
    /\ call[c].pc = "sleep_blocked"
    /\ now >= call[c].wake
    /\ call' = [call EXCEPT ![c].pc = "done", ![c].result = "empty"]
    /\ UNCHANGED <<now, blocked_until, sem, waiters, blockBy, fa, dbvars>>

\* A second passes.
Tick ==
    /\ now < MaxTime
    /\ now' = now + 1
    /\ UNCHANGED <<blocked_until, sem, waiters, call, blockBy, fa, dbvars>>

NextScraper ==
    \/ \E c \in Callers : StartBatch(c)
    \/ \E c \in Callers : StartDetails(c)
    \/ \E c \in Callers : Acquire(c)
    \/ \E c \in Callers, r \in Responses : Respond(c, r)
    \/ \E c \in Callers : WakeThrottle(c)
    \/ \E c \in Callers : WakeBlocked(c)
    \/ Tick

SpecScraper == InitScraper /\ [][NextScraper]_vars

\* Steady load: a caller whose call returned makes another call.
CallAgain(c) ==
    /\ call[c].pc = "done"
    /\ call' = [call EXCEPT ![c] = IdleCall]
    /\ UNCHANGED <<now, blocked_until, sem, waiters, blockBy, fa, dbvars>>

\* The throttle sleep that response r starts ends within the time the
\* clock of the model covers.
Finishable(r) ==
    LET o == Outcome(r, now, blocked_until)
    IN  o.throttled => now + o.sleep <= MaxTime

\* The response of upstream to the request of caller c.
Answer(c) == \E r \in Responses : Finishable(r) /\ Respond(c, r)

\* The load: caller 1 is the batch loop of scrape_all_bundles, the other
\* callers fetch single bundles.
NextLimiter ==
    \/ StartBatch(1)
    \/ \E c \in Callers \ {1} : StartDetails(c)
    \/ \E c \in Callers : Acquire(c)
    \/ \E c \in Callers : Answer(c)
    \/ \E c \in Callers : WakeThrottle(c)
    \/ \E c \in Callers : WakeBlocked(c)
    \/ \E c \in Callers : CallAgain(c)
    \/ Tick

\* The event loop runs a coroutine that can run: the caller a released
\* permit was handed to, a handler whose response arrived, a sleeper whose
\* time is up.  Every request is answered and time passes.  Nothing makes
\* a caller start a call.
FairLimiter ==
    /\ \A c \in Callers :
          /\ WF_vars(Acquire(c))
          /\ WF_vars(Answer(c))
          /\ WF_vars(WakeThrottle(c))
          /\ WF_vars(WakeBlocked(c))
    /\ WF_vars(Tick)

\* The load starts one second before the clock of the model ends: a
\* throttle sleep of one second still finishes.
InitLimiter ==
    /\ FreshDb
    /\ now = MaxTime - 1
    /\ blocked_until = 0
    /\ sem = MAX_CONCURRENT_REQUESTS
    /\ waiters = << >>
    /\ call = [c \in Callers |-> IdleCall]
    /\ blockBy = NoBlock
    /\ fa = NoFetchAll

SpecLimiter == InitLimiter /\ [][NextLimiter]_vars /\ FairLimiter

----------------------------------------------------------------------------
(* BundleScraper.scrape_all_bundles: one coroutine, batch after batch.     *)
(* The identifier list is its length n; an identifier is its position.     *)

\* batch = bundle_ids[i:i + batch_size] (scraper.py:349), as positions.
BatchSlice(n, i) == [first |-> i + 1, last |-> Min(i + batch_size, n)]

\* The request cut one identifier short of the ceiling.
Carried_short(batch) ==
    [first |-> batch.first, last |-> Min(batch.last, batch.first + 98)]

\* bundle_ids[:100] (scraper.py:221): what the request carries of a batch.
Carried(batch) ==
    [first |-> batch.first, last |-> Min(batch.last, batch.first + 99)]

\* The loop goes back over a batch that brought no data.
NextOffset_retry(i, result) ==
    IF result = "data" THEN i + batch_size ELSE i

\* for i in range(0, len(bundle_ids), batch_size) (scraper.py:348): the
\* offset moves on whatever the batch call returned.
NextOffset(i, result) == i + batch_size

InitFetchAll ==
    /\ FreshDb
    /\ now = 1
    /\ blocked_until = 0
    /\ sem = MAX_CONCURRENT_REQUESTS
    /\ waiters = << >>
    /\ call = << >>
    /\ blockBy = NoBlock
    /\ \E n \in 0..MaxIds :
          fa = [pc |-> "loop", n |-> n, i |-> 0, issued |-> << >>,
                resp |-> << >>, got |-> << >>]

\* One turn of the loop of scraper.py:348-359: slice the batch, await
\* scrape_bundles_batch on it (request, response r, throttle sleep if any),
\* extend the result, pause REQUEST_DELAY unless it was the last batch.
\* issued and resp are history: the requests sent and the statuses received;
\* got is the returned list, a batch's records standing as its number.
FetchBatch(r) ==
    /\ fa.pc = "loop"
    /\ fa.i < fa.n
    /\ LET batch == BatchSlice(fa.n, fa.i)
           o     == Outcome(r, now, blocked_until)
           pause == IF fa.i + batch_size < fa.n THEN REQUEST_DELAY ELSE 0
       IN  /\ blocked_until' = o.blocked_until
           /\ blockBy' = IF o.throttled
                         THEN [kind |-> "batch", status |-> r.status,
                               seconds |-> o.sleep]
                         ELSE blockBy
           /\ now' = now + o.sleep + pause
           /\ fa' = [fa EXCEPT
                  !.issued = Append(@, Carried(batch)),
                  !.resp = Append(@, r.status),
                  !.got = IF o.result = "data"
                          THEN Append(@, Len(fa.issued) + 1) ELSE @,
                  !.i = NextOffset(@, o.result)]
    /\ UNCHANGED <<sem, waiters, call, dbvars>>

\* The loop is over (or the list was empty, scraper.py:338-340): return.
FetchReturn ==
    /\ fa.pc = "loop"
    /\ fa.i >= fa.n
    /\ fa' = [fa EXCEPT !.pc = "done"]
    /\ UNCHANGED <<scvars, dbvars>>

NextFetchAll ==
    \/ \E r \in Responses : FetchBatch(r)
    \/ FetchReturn

SpecFetchAll == InitFetchAll /\ [][NextFetchAll]_vars

----------------------------------------------------------------------------
(* The 200 branch of scrape_bundles_batch and scrape_bundle_details: the   *)
(* store_items of the JSON payload mapped into records.  Amounts are in    *)
(* cents, as upstream sends them; an entry is known by its position.       *)

\* A field of best_purchase_option: absent, or a number of cents.
Absent == [kind |-> "absent", value |-> 0]

Cents(S) == {Absent} \cup [kind : {"int"}, value : S]

\* The entries upstream can send: with or without a name, the two amounts
\* and a discount of its own.
StoreItems ==
    [name : {None, Some("n")},
     final_price_in_cents : Cents({0, 1000, 2000}),
     price_before_bundle_discount : Cents({0, 1000, 2000, 3000}),
     discount_pct : Cents({10})]

\* int(purchase_option.get('final_price_in_cents', 0))
FinalCents(item) ==
    IF item.final_price_in_cents = Absent THEN 0
    ELSE item.final_price_in_cents.value

\* int(purchase_option.get('price_before_bundle_discount', final_price_cents))
OriginalCents(item) ==
    IF item.price_before_bundle_discount = Absent THEN FinalCents(item)
    ELSE item.price_before_bundle_discount.value

\* No entry is taken for a ghost.
IsGhost_never(item) == FALSE

\* scraper.py:148,268: an entry without a price.
IsGhost(item) == FinalCents(item) = 0 /\ OriginalCents(item) = 0

\* Python's round() of the quotient num / den, den > 0: the nearest
\* integer, the even one of the two when the quotient is halfway.
Round(num, den) ==
    LET q == num \div den
        r == num % den
    IN  IF 2 * r < den THEN q
        ELSE IF 2 * r > den THEN q + 1
        ELSE IF q % 2 = 0 THEN q ELSE q + 1

\* The discount upstream claims is taken when there is one.
DiscountPct_upstream(item) ==
    IF item.discount_pct # Absent THEN item.discount_pct.value
    ELSE IF OriginalCents(item) > 0
         THEN Round((OriginalCents(item) - FinalCents(item)) * 100,
                    OriginalCents(item))
         ELSE 0

\* scraper.py:153-156,272-275
DiscountPct(item) ==
    IF OriginalCents(item) > 0
    THEN Round((OriginalCents(item) - FinalCents(item)) * 100,
               OriginalCents(item))
    ELSE 0

\* The record built from entry k (scraper.py:159-190,277-308).
MapItem(item, k) ==
    [at |-> k, name |-> item.name,
     price |-> [final |-> FinalCents(item), original |-> OriginalCents(item),
                discount |-> DiscountPct(item), currency |-> "BRL"]]

\* Whether an entry yields a record: it has a name and is no ghost.
Emits(item) == item.name # None /\ ~IsGhost(item)

\* The loop of scraper.py:255-312 over the first k entries.
RECURSIVE BatchRecords(_, _)
BatchRecords(items, k) ==
    IF k = 0 THEN << >>
    ELSE IF Emits(items[k])
         THEN Append(BatchRecords(items, k - 1), MapItem(items[k], k))
         ELSE BatchRecords(items, k - 1)

\* scraper.py:132-197: the record of the first entry, or None (no record).
DetailsRecords(items) ==
    IF items # << >> /\ Emits(items[1]) THEN <<MapItem(items[1], 1)>>
    ELSE << >>

InitMap ==
    /\ store = << >>
    /\ clock = 1
    /\ lastCall = NoCall
    /\ prevCall = NoCall
    /\ sess = << >>
    /\ store0 = << >>
    /\ run = NoRun
    /\ IdleTools
    /\ FreshScraper
    /\ \E kind \in {"batch", "details"}, n \in 0..MaxItems :
          \E items \in [1..n -> StoreItems] :
              mapped = [pc |-> "response", kind |-> kind,
                        store_items |-> items, out |-> << >>]

MapBatch ==
    /\ mapped.pc = "response" /\ mapped.kind = "batch"
    /\ mapped' = [mapped EXCEPT
           !.pc = "done",
           !.out = BatchRecords(mapped.store_items, Len(mapped.store_items))]
    /\ UNCHANGED <<store, clock, lastCall, prevCall, sess, store0, run,
                   scvars, toolvars, fa>>

MapDetails ==
    /\ mapped.pc = "response" /\ mapped.kind = "details"
    /\ mapped' = [mapped EXCEPT
           !.pc = "done", !.out = DetailsRecords(mapped.store_items)]
    /\ UNCHANGED <<store, clock, lastCall, prevCall, sess, store0, run,
                   scvars, toolvars, fa>>

NextMap == MapBatch \/ MapDetails

SpecMap == InitMap /\ [][NextMap]_vars

----------------------------------------------------------------------------
(* BundleModel.get_real_discount, a function of the object's price_history *)
(* and original_price and of the time of the call.  A snapshot's date is   *)
(* kept as its age in days at the call.                                    *)

Snapshots == [age : {10, 40}, final : {0, 800, 1000}, discount : {0, 20}]

Histories ==
    {None} \cup {Some(h) : h \in UNION {[1..n -> Snapshots] : n \in 0..MaxHist}}

\* The objects get_real_discount is called on.
Bundles ==
    [price_history : Histories,
     original_price : {None, Some(1000), Some(1600), Some(2500)}]

\* One snapshot is history enough.
InsufficientHistory_one(b) ==
    b.price_history = None \/ Len(b.price_history[1]) < 1

\* not self.price_history or len(self.price_history) < 2 (database.py:73)
InsufficientHistory(b) ==
    b.price_history = None \/ Len(b.price_history[1]) < MIN_HISTORY

\* database.py:82-86: the finals of the first k entries that are dated
\* within the window, carry no discount and have a final that is not 0.
RECURSIVE RegularPrices(_, _)
RegularPrices(h, k) ==
    IF k = 0 THEN << >>
    ELSE IF h[k].age <= WINDOW_DAYS /\ h[k].discount = 0 /\ h[k].final # 0
         THEN Append(RegularPrices(h, k - 1), h[k].final)
         ELSE RegularPrices(h, k - 1)

RECURSIVE Sum(_)
Sum(s) == IF s = << >> THEN 0 ELSE Head(s) + Sum(Tail(s))

\* database.py:73-110.  avg_regular_price is Sum(regular) / Len(regular):
\* original > avg * 1.5 is 2 * original * Len > 3 * Sum, and
\* inflation_percent, rounded to one decimal, is kept in tenths of a percent.
get_real_discount(b) ==
    IF InsufficientHistory(b)
    THEN [is_real |-> TRUE, reason |-> "insufficient", inflation |-> None]
    ELSE LET h       == b.price_history[1]
             regular == RegularPrices(h, Len(h))
             n       == Len(regular)
             total   == Sum(regular)
         IN  IF regular = << >>
             THEN [is_real |-> TRUE, reason |-> "no regular",
                   inflation |-> None]
             ELSE IF /\ b.original_price # None
                     /\ b.original_price[1] # 0
                     /\ 2 * b.original_price[1] * n > 3 * total
                  THEN [is_real |-> FALSE, reason |-> "inflated",
                        inflation |->
                          Some(Round((b.original_price[1] * n - total) * 1000,
                                     total))]
                  ELSE [is_real |-> TRUE, reason |-> "consistent",
                        inflation |-> None]

InitAnalyze ==
    /\ store = << >>
    /\ clock = 1
    /\ lastCall = NoCall
    /\ prevCall = NoCall
    /\ sess = << >>
    /\ store0 = << >>
    /\ run = NoRun
    /\ mapped = NoMapping
    /\ FreshScraper
    /\ diff = NoTool /\ scan = NoTool /\ browser = NoTool
    /\ cron = NoTool
    /\ bundle_games = NoTool /\ filter_service = NoTool
    /\ \E b \in Bundles : analysis = [pc |-> "call", before |-> b]

\* bundle.get_real_discount(): the object after the call and the result.
Analyze ==
    /\ analysis.pc = "call"
    /\ analysis' = [pc |-> "done", before |-> analysis.before,
                    bundle |-> analysis.before,
                    result |-> get_real_discount(analysis.before)]
    /\ UNCHANGED <<corevars, cron, bundle_games, filter_service,
                   diff, scan, browser>>

NextAnalyze == Analyze

SpecAnalyze == InitAnalyze /\ [][NextAnalyze]_vars

----------------------------------------------------------------------------
(* BundleDiscovery.brute_force_scan and discover_all: one request per      *)
(* window of ids, the confirmed ids gathered in valid_ids and in the set   *)
(* discovered_ids.                                                         *)

\* The entries a 200 response can carry for a window: each an id of the
\* window, with a name or without.
ScanEntries(window) ==
    [id : window.first..window.last, name : {None, Some("n")}]

\* What upstream answers to the request of a window: the request raises
\* (network error, timeout), a status other than 200, or a 200 whose
\* store_items are any entries of the window, an entry possibly twice.
ScanResponses(window) ==
    [kind : {"raise", "status"}, store_items : {<< >>}]
        \cup [kind : {"ok"},
              store_items : UNION {[1..n -> ScanEntries(window)] :
                                      n \in 0..MaxItems}]

\* An entry counts without a name.
Confirmed_unnamed(items) ==
    [k \in 1..Len(items) |-> items[k].id]

\* bundle_discovery.py:69-73: the ids of the entries that have an id and a
\* name, in the order of the response.
Confirmed(items) ==
    LET named(e) == e.id # 0 /\ e.name # None
        picked   == SelectSeq(items, named)
    IN  [k \in 1..Len(picked) |-> picked[k].id]

\* What the handling of a response adds to valid_ids
\* (bundle_discovery.py:59-87): only a 200 is read.
Harvest(r) == IF r.kind = "ok" THEN Confirmed(r.store_items) ELSE << >>

\* The scan goes back over a window whose request raised.
NextWindow_retry(i, size, r) ==
    IF r.kind = "raise" THEN i ELSE i + size

\* range(start, end, batch_size) (bundle_discovery.py:45): the next window
\* starts batch_size further, whatever the response was.
NextWindow(i, size, r) == i + size

\* asyncio.sleep(0.3) is the last statement of the try block
\* (bundle_discovery.py:84): it runs after every response, whatever the
\* status, and is skipped when the request raised.
SleepsAfter(r) == r.kind # "raise"

Range(s) == {s[k] : k \in 1..Len(s)}

\* sorted(self.discovered_ids) (bundle_discovery.py:103)
RECURSIVE Sorted(_)
Sorted(S) ==
    IF S = {} THEN << >>
    ELSE LET m == CHOOSE i \in S : \A j \in S : i <= j
         IN  <<m>> \o Sorted(S \ {m})

InitScan ==
    /\ store = << >>
    /\ clock = 1
    /\ lastCall = NoCall
    /\ prevCall = NoCall
    /\ sess = << >>
    /\ store0 = << >>
    /\ run = NoRun
    /\ mapped = NoMapping
    /\ FreshScraper
    /\ analysis = NoTool /\ diff = NoTool /\ browser = NoTool
    /\ cron = NoTool
    /\ bundle_games = NoTool /\ filter_service = NoTool
    /\ \E start \in 1..2, end \in 1..MaxScanEnd,
          size \in 1..MaxScanBatch :
          scan = [pc |-> "loop", start |-> start, end |-> end,
                  batch_size |-> size, i |-> start,
                  windows |-> << >>, responses |-> << >>, slept |-> << >>,
                  valid_ids |-> << >>, discovered_ids |-> {},
                  all_ids |-> << >>]

\* One turn of the loop of bundle_discovery.py:45-87 with response r.
ScanWindow ==
    /\ scan.pc = "loop"
    /\ scan.i < scan.end
    /\ LET window == [first |-> scan.i,
                      last |-> Min(scan.i + scan.batch_size, scan.end) - 1]
       IN  \E r \in ScanResponses(window) :
             scan' = [scan EXCEPT
                 !.windows = Append(@, window),
                 !.responses = Append(@, r),
                 !.slept = Append(@, SleepsAfter(r)),
                 !.valid_ids = @ \o Harvest(r),
                 !.discovered_ids = @ \cup Range(Harvest(r)),
                 !.i = NextWindow(@, scan.batch_size, r)]
    /\ UNCHANGED <<corevars, cron, bundle_games, filter_service,
                   analysis, diff, browser>>

\* The loop is over: brute_force_scan returns valid_ids and discover_all
\* returns the sorted discovered_ids (bundle_discovery.py:89-109).
ScanReturn ==
    /\ scan.pc = "loop"
    /\ scan.i >= scan.end
    /\ scan' = [scan EXCEPT !.pc = "done",
                            !.all_ids = Sorted(scan.discovered_ids)]
    /\ UNCHANGED <<corevars, cron, bundle_games, filter_service,
                   analysis, diff, browser>>

NextScan == ScanWindow \/ ScanReturn

SpecScan == InitScan /\ [][NextScan]_vars

----------------------------------------------------------------------------
(* BrowserScraper: scrape_bundle_with_browser renders one bundle page and  *)
(* scrape_multiple_bundles walks a list of ids through it.                 *)

BROWSER_BATCH == 3   \* batch_size of scrape_multiple_bundles

\* The rendered documents: a title or none, a price element or none (one
\* that parses to 0 on a page with a dynamic-price indicator, or one that
\* parses to a price), a list of games or none.
Documents ==
    [name  : {None, Some("n")},
     price : {None, Some([final |-> 0, dynamic |-> TRUE]),
                    Some([final |-> 1000, dynamic |-> FALSE])},
     games : 0..1]

\* What page.goto .. page.content produce (browser_scraper.py:85-100): an
\* exception (navigation error, timeout of goto) or a document; the
\* timeout of wait_for_selector is caught and the document is still read.
Renderings == {[kind |-> "goto"]} \cup [kind : {"document"}, doc : Documents]

\* mapper.py:59-98
extract_price(doc) ==
    IF doc.price = None THEN None
    ELSE LET p == doc.price[1]
         IN  Some([final |-> p.final,
                   needs_browser_scraping |-> (p.final = 0 /\ p.dynamic)])

\* mapper.py:13-43
parse_bundle_html(doc, bundle_id) ==
    LET price_data == extract_price(doc)
    IN  [id |-> bundle_id,
         name |-> doc.name,
         price |-> price_data,
         games |-> doc.games,
         needs_browser_scraping |->
             (price_data # None /\ price_data[1].needs_browser_scraping)]

\* A record without games is accepted.
validate_bundle_lenient(bundle_data) ==
    /\ bundle_data.id # 0
    /\ bundle_data.name # None
    /\ bundle_data.price # None

\* mapper.py:214-236
validate_bundle(bundle_data) ==
    /\ bundle_data.id # 0
    /\ bundle_data.name # None
    /\ bundle_data.price # None
    /\ bundle_data.games > 0

\* The record leaves with the flag the mapper computed.
ForceFlag_keep(bundle_data) == bundle_data

\* browser_scraper.py:106
ForceFlag(bundle_data) ==
    [bundle_data EXCEPT !.needs_browser_scraping = FALSE]

\* What scrape_bundle_with_browser returns for a rendering
\* (browser_scraper.py:85-124): None after an exception or for a record
\* that does not validate, the record otherwise.
BrowserResult(bundle_id, r) ==
    IF r.kind = "goto" THEN None
    ELSE LET bundle_data == ForceFlag(parse_bundle_html(r.doc, bundle_id))
         IN  IF validate_bundle(bundle_data) THEN Some(bundle_data) ELSE None

\* The page is closed only when a record is returned.
ClosesPage_onSuccess(page, ret) == page /\ ret # None

\* finally: if page: await page.close() (browser_scraper.py:126-128)
ClosesPage(page, ret) == page

\* The ids handed over: n ids, the largest first.
BrowserInputs ==
    {[k \in 1..n |-> n + 1 - k] : n \in 0..MaxBrowserIds}

\* bundle_ids[i:i + batch_size] for the batch that holds position k
\* (browser_scraper.py:148-149).
BatchAt(ids, k) ==
    LET i == ((k - 1) \div BROWSER_BATCH) * BROWSER_BATCH
    IN  SubSeq(ids, i + 1, Min(i + BROWSER_BATCH, Len(ids)))

InitBrowser ==
    /\ store = << >>
    /\ clock = 1
    /\ lastCall = NoCall
    /\ prevCall = NoCall
    /\ sess = << >>
    /\ store0 = << >>
    /\ run = NoRun
    /\ mapped = NoMapping
    /\ FreshScraper
    /\ analysis = NoTool /\ diff = NoTool /\ scan = NoTool
    /\ cron = NoTool
    /\ bundle_games = NoTool /\ filter_service = NoTool
    /\ \E ids \in BrowserInputs :
          browser = [pc |-> "next", bundle_ids |-> ids, k |-> 1,
                     batches |-> << >>, open |-> 0, page |-> FALSE,
                     ret |-> None, bundles |-> << >>, handled |-> << >>,
                     rendering |-> [kind |-> "none"]]

\* The next id of the batch loop enters scrape_bundle_with_browser, which
\* asks the browser for a page (browser_scraper.py:154-155, 73-77):
\* new_page either opens one or raises.
OpenPage ==
    /\ browser.pc = "next"
    /\ browser.k <= Len(browser.bundle_ids)
    /\ LET batch == BatchAt(browser.bundle_ids, browser.k)
           first == (browser.k - 1) % BROWSER_BATCH = 0
       IN  \E ok \in BOOLEAN :
             browser' = [browser EXCEPT
                 !.batches = IF first THEN Append(@, batch) ELSE @,
                 !.page = ok,
                 !.open = IF ok THEN @ + 1 ELSE @,
                 !.ret = None,
                 !.rendering = IF ok THEN [kind |-> "none"]
                               ELSE [kind |-> "new_page"],
                 !.pc = IF ok THEN "page" ELSE "finally"]
    /\ UNCHANGED <<corevars, cron, bundle_games, filter_service,
                   analysis, diff, scan>>

\* The page is loaded, read, mapped and validated
\* (browser_scraper.py:79-124).
Render ==
    /\ browser.pc = "page"
    /\ \E r \in Renderings :
          browser' = [browser EXCEPT
              !.rendering = r,
              !.ret = BrowserResult(browser.bundle_ids[browser.k], r),
              !.pc = "finally"]
    /\ UNCHANGED <<corevars, cron, bundle_games, filter_service,
                   analysis, diff, scan>>

\* The finally block closes the page, and the batch loop appends the
\* record if there is one and sleeps (browser_scraper.py:126-128, 156-165).
LeavePage ==
    /\ browser.pc = "finally"
    /\ browser' = [browser EXCEPT
          !.open = IF ClosesPage(browser.page, browser.ret) THEN @ - 1 ELSE @,
          !.page = FALSE,
          !.bundles = IF browser.ret # None
                      THEN Append(@, browser.ret[1]) ELSE @,
          !.handled = Append(@, [id |-> browser.bundle_ids[browser.k],
                                 rendering |-> browser.rendering]),
          !.k = @ + 1,
          !.pc = "next"]
    /\ UNCHANGED <<corevars, cron, bundle_games, filter_service,
                   analysis, diff, scan>>

\* The loops are over: scrape_multiple_bundles returns bundles
\* (browser_scraper.py:167-170).
BrowserReturn ==
    /\ browser.pc = "next"
    /\ browser.k > Len(browser.bundle_ids)
    /\ browser' = [browser EXCEPT !.pc = "done"]
    /\ UNCHANGED <<corevars, cron, bundle_games, filter_service,
                   analysis, diff, scan>>

NextBrowser == OpenPage \/ Render \/ LeavePage \/ BrowserReturn

SpecBrowser == InitBrowser /\ [][NextBrowser]_vars

----------------------------------------------------------------------------
(* discover_with_diff: the scan result against data/known_bundles.json.    *)

KnownIds == 1..MaxKnownId

\* data/known_bundles.json before the run: not there, not loadable, or
\* holding a list of bundle ids.
KnownFiles ==
    [kind : {"absent", "unreadable"}, bundle_ids : {{}}]
        \cup [kind : {"ids"}, bundle_ids : SUBSET KnownIds]

\* discover_with_diff.py:31-40: the ids of the file, the empty set when the
\* file is not there or loading it raises.
LoadKnown(file) == IF file.kind = "ids" THEN file.bundle_ids ELSE {}

\* Every scanned id is reported as added.
Added_all(new_ids, old_ids) == new_ids

\* added = new_ids - old_ids (discover_with_diff.py:50)
Added(new_ids, old_ids) == new_ids \ old_ids

\* removed = old_ids - new_ids (discover_with_diff.py:51)
Removed(new_ids, old_ids) == old_ids \ new_ids

InitDiff ==
    /\ store = << >>
    /\ clock = 1
    /\ lastCall = NoCall
    /\ prevCall = NoCall
    /\ sess = << >>
    /\ store0 = << >>
    /\ run = NoRun
    /\ mapped = NoMapping
    /\ FreshScraper
    /\ analysis = NoTool /\ scan = NoTool /\ browser = NoTool
    /\ cron = NoTool
    /\ bundle_games = NoTool /\ filter_service = NoTool
    /\ \E file \in KnownFiles :
          diff = [pc |-> "discovering", before |-> file, file |-> file]

\* discover_with_diff.py:30-107 with discover_all returning new_ids: load,
\* diff, write known_bundles.json and, when something changed,
\* bundle_changes.json.
DiscoverWithDiff(new_ids) ==
    /\ diff.pc = "discovering"
    /\ LET old_ids == LoadKnown(diff.file)
           added   == Added(new_ids, old_ids)
           removed == Removed(new_ids, old_ids)
       IN  diff' = [pc |-> "done", before |-> diff.before,
                    new_ids |-> new_ids,
                    file |-> [kind |-> "ids", bundle_ids |-> new_ids],
                    added |-> added, removed |-> removed,
                    changes_written |-> added # {} \/ removed # {}]
    /\ UNCHANGED <<corevars, cron, bundle_games, filter_service,
                   analysis, scan, browser>>

NextDiff == \E new_ids \in SUBSET KnownIds : DiscoverWithDiff(new_ids)

SpecDiff == InitDiff /\ [][NextDiff]_vars

----------------------------------------------------------------------------
(* Pipeline runs: main_with_db.main (fast path) and scrape_incremental,    *)
(* from the return of the fetch to the end of the save loop.               *)

\* The records a fetch hands to the filters: id, name and price present or
\* not, so that the filters have something to reject.
RunPrices ==
    { None,
      Some([final |-> None, original |-> None, discount |-> 0,
            currency |-> "BRL"]),
      Some([final |-> Some(1000), original |-> Some(1000), discount |-> 0,
            currency |-> "BRL"]),
      Some([final |-> Some(800), original |-> Some(1000), discount |-> 20,
            currency |-> "BRL"]) }

RunRecords ==
    [id : {None} \cup {Some(i) : i \in Ids}, name : {None, Some("n")},
     price : RunPrices]

RunLists == UNION {[1..n -> RunRecords] : n \in 0..MaxBatch}

\* The tables a run can start from: empty, or holding bundle 1.
RunStores ==
    { << >>,
      SaveResult(<< >>, 1,
                 [name |-> Some("n"),
                  price |-> Some([final |-> Some(1000),
                                  original |-> Some(1000), discount |-> 0,
                                  currency |-> "BRL"])], 1) }

\* The filter lets a record without a name through.
IsValidBundle_noName(b) ==
    /\ b.id # None
    /\ b.price # None
    /\ b.price[1].final # None

\* BundleFilter._is_valid_bundle: id, name and price are present, and the
\* price dict has a final that is not None.
IsValidBundle(b) ==
    /\ b.id # None
    /\ b.name # None
    /\ b.price # None
    /\ b.price[1].final # None

\* BundleFilter.filter_valid
filter_valid(bundles) == SelectSeq(bundles, IsValidBundle)

\* BundleFilter.filter_duplicates on the first k records: a record is kept
\* when it has an id that no kept record has.
RECURSIVE Unique(_, _)
Unique(bundles, k) ==
    IF k = 0 THEN << >>
    ELSE LET kept == Unique(bundles, k - 1)
             b    == bundles[k]
         IN  IF b.id # None /\ \A j \in 1..Len(kept) : kept[j].id # b.id
             THEN Append(kept, b) ELSE kept

filter_duplicates(bundles) == Unique(bundles, Len(bundles))

\* A removed id deletes its row.
MarkRemoved_deletes(st, id) == [i \in DOMAIN st \ {id} |-> st[i]]

\* scrape_incremental.py:58-64: a removed id is logged, nothing is written.
MarkRemoved(st, id) == st

\* The loop of scrape_incremental.py:58-64 over the removed ids.
RECURSIVE MarkAllRemoved(_, _)
MarkAllRemoved(st, ids) ==
    IF ids = {} THEN st
    ELSE LET id == CHOOSE i \in ids : \A j \in ids : i <= j
         IN  MarkAllRemoved(MarkRemoved(st, id), ids \ {id})

\* scraping_log.bundles_failed += 1 (main_with_db.py:76): the attribute of a
\* ScrapingLogModel built with started_at alone reads None until a flush
\* applies the column default, and None + 1 raises TypeError.
IncrementRaises(v) == v = None

InitRun ==
    /\ store \in RunStores
    /\ store0 = store
    /\ clock = 2
    /\ lastCall = NoCall
    /\ prevCall = NoCall
    /\ sess = << >>
    /\ mapped = NoMapping
    /\ IdleTools
    /\ FreshScraper
    /\ \E path \in {"main", "incremental"}, bundles \in RunLists,
          removed \in SUBSET Ids :
          /\ path = "main" => removed = {}
          /\ run = [pc |-> IF path = "main" THEN "fetched" ELSE "start",
                    path |-> path, removed |-> removed, bundles |-> bundles,
                    batch |-> << >>, k |-> 0, saved_count |-> 0,
                    bundles_failed |-> None]

\* scrape_incremental.py:55-72: the removed ids, then the fetch of the added.
ProcessRemoved ==
    /\ run.pc = "start"
    /\ store' = MarkAllRemoved(store, run.removed)
    /\ run' = [run EXCEPT !.pc = "fetched"]
    /\ UNCHANGED <<clock, lastCall, prevCall, sess, store0, scvars, toolvars, fa,
                   mapped>>

\* main_with_db.py:47-60 / scrape_incremental.py:76-83: the filters.
ApplyFilters ==
    /\ run.pc = "fetched"
    /\ run' = [run EXCEPT
           !.pc = "saving",
           !.batch = IF run.path = "main"
                     THEN filter_duplicates(filter_valid(run.bundles))
                     ELSE filter_valid(run.bundles),
           !.k = 1]
    /\ UNCHANGED <<store, clock, lastCall, prevCall, sess, store0, scvars,
                   toolvars, fa, mapped>>

\* One turn of the save loop (main_with_db.py:61-76,
\* scrape_incremental.py:84-89): save_bundle returns, or it raises (the
\* database fails, dbOk = FALSE) and the handler runs.
SaveNext(dbOk) ==
    /\ run.pc = "saving"
    /\ run.k <= Len(run.batch)
    /\ LET rec == run.batch[run.k]
       IN  IF dbOk
           THEN /\ store' = SaveResult(store, rec.id[1], rec, clock)
                /\ clock' = clock + 1
                /\ run' = [run EXCEPT !.k = @ + 1, !.saved_count = @ + 1]
           ELSE /\ run' = IF run.path = "main"
                              /\ IncrementRaises(run.bundles_failed)
                           THEN [run EXCEPT !.pc = "aborted"]
                           ELSE [run EXCEPT !.k = @ + 1]
                /\ UNCHANGED <<store, clock>>
    /\ UNCHANGED <<lastCall, prevCall, sess, store0, scvars, toolvars, fa, mapped>>

\* The save loop is over.
FinishRun ==
    /\ run.pc = "saving"
    /\ run.k > Len(run.batch)
    /\ run' = [run EXCEPT !.pc = "done"]
    /\ UNCHANGED <<store, clock, lastCall, prevCall, sess, store0, scvars,
                   toolvars, fa, mapped>>

NextRun ==
    \/ ProcessRemoved
    \/ ApplyFilters
    \/ \E dbOk \in BOOLEAN : SaveNext(dbOk)
    \/ FinishRun

SpecRun == InitRun /\ [][NextRun]_vars

----------------------------------------------------------------------------
(* scrape_incremental from the load of data/bundle_changes.json to its     *)
(* deletion; the added ids are 1..added.                                   *)

\* How many ids the file lists under 'added'.
AddedCounts == {0, 1, batch_size, batch_size + 1, MaxIds}

InitIncr ==
    /\ store = << >>
    /\ clock = 1
    /\ lastCall = NoCall
    /\ prevCall = NoCall
    /\ sess = << >>
    /\ store0 = << >>
    /\ mapped = NoMapping
    /\ IdleTools
    /\ FreshScraper
    /\ \E added \in AddedCounts, removed \in SUBSET {1} :
          run = [pc |-> "start", path |-> "incremental", added |-> added,
                 removed |-> removed, file |-> TRUE,
                 sent |-> [first |-> 1, last |-> 0], status |-> None,
                 result |-> "none", bundles |-> << >>, saved_count |-> 0]

\* scrape_incremental.py:35-67: nothing listed, return and leave the file;
\* else the removed ids are logged and, if ids were added, fetched.
IncrLoad ==
    /\ run.pc = "start"
    /\ run' = [run EXCEPT
          !.pc = IF run.added = 0 /\ run.removed = {} THEN "returned"
                 ELSE IF run.added = 0 THEN "unlink" ELSE "fetch"]
    /\ store' = MarkAllRemoved(store, run.removed)
    /\ UNCHANGED <<clock, lastCall, prevCall, sess, store0, scvars, toolvars,
                   fa, mapped>>

\* scrape_incremental.py:70-91: one scrape_bundles_batch call on the whole
\* list, answered by r and mapped into bundles; filter_valid; the save of
\* each record, which returns or raises (dbOk).  Whatever the fetch
\* returned, the deletion of the file comes next.
IncrFetch(r, bundles, dbOk) ==
    /\ run.pc = "fetch"
    /\ LET o     == Outcome(r, now, blocked_until)
           got   == IF o.result = "data" THEN bundles ELSE << >>
           valid == filter_valid(got)
           saves == valid # << >> /\ dbOk
       IN  /\ blocked_until' = o.blocked_until
           /\ blockBy' = IF o.throttled
                         THEN [kind |-> "batch", status |-> r.status,
                               seconds |-> o.sleep]
                         ELSE blockBy
           /\ now' = now + o.sleep
           /\ store' = IF saves
                       THEN SaveResult(store, valid[1].id[1], valid[1], clock)
                       ELSE store
           /\ clock' = IF saves THEN clock + 1 ELSE clock
           /\ run' = [run EXCEPT
                  !.pc = "unlink",
                  !.sent = Carried([first |-> 1, last |-> run.added]),
                  !.status = Some(r.status),
                  !.result = o.result,
                  !.bundles = valid,
                  !.saved_count = IF saves THEN 1 ELSE 0]
    /\ UNCHANGED <<lastCall, prevCall, sess, store0, sem, waiters, call,
                   toolvars, fa, mapped>>

\* scrape_incremental.py:93-98
IncrUnlink ==
    /\ run.pc = "unlink"
    /\ run' = [run EXCEPT !.pc = "done", !.file = FALSE]
    /\ UNCHANGED <<store, clock, lastCall, prevCall, sess, store0, scvars,
                   toolvars, fa, mapped>>

NextIncr ==
    \/ IncrLoad
    \/ \E r \in Responses, dbOk \in BOOLEAN,
          bundles \in {l \in RunLists : Len(l) <= 1} :
          IncrFetch(r, bundles, dbOk)
    \/ IncrUnlink

SpecIncr == InitIncr /\ [][NextIncr]_vars

----------------------------------------------------------------------------
(* cron_scraper.check_and_run: several invocations, each a process, and    *)
(* the lock file /app/data/.cron_lock.  A file is an inode; the path names *)
(* an inode or nothing; flock locks the inode an open descriptor refers    *)
(* to, whatever the path names by then.                                    *)

CronProcs == 1..NumCron

NoInode == 0

IdleCron == [pc |-> "idle", fd |-> NoInode, ret |-> None]

InitCron ==
    /\ store = << >>
    /\ clock = 1
    /\ lastCall = NoCall
    /\ prevCall = NoCall
    /\ sess = << >>
    /\ store0 = << >>
    /\ run = NoRun
    /\ mapped = NoMapping
    /\ FreshScraper
    /\ analysis = NoTool /\ diff = NoTool /\ scan = NoTool
    /\ browser = NoTool
    /\ bundle_games = NoTool /\ filter_service = NoTool
    /\ cron = [path |-> NoInode, created |-> 0,
               holder |-> [i \in 1..NumCron |-> 0],
               proc |-> [p \in CronProcs |-> IdleCron]]

\* lock_fd = open(LOCK_FILE, 'w') (cron_scraper.py:33): the descriptor
\* refers to the inode the path names, created if the path names none; or
\* open raises IOError and the invocation returns 0.
CronOpen(p, ok) ==
    /\ cron.proc[p].pc = "idle"
    /\ IF ~ok
       THEN cron' = [cron EXCEPT !.proc[p].pc = "skipped",
                                 !.proc[p].ret = Some(0)]
       ELSE IF cron.path = NoInode
       THEN cron' = [cron EXCEPT !.created = @ + 1,
                                 !.path = cron.created + 1,
                                 !.proc[p].fd = cron.created + 1,
                                 !.proc[p].pc = "opened"]
       ELSE cron' = [cron EXCEPT !.proc[p].fd = cron.path,
                                 !.proc[p].pc = "opened"]
    /\ UNCHANGED <<corevars, analysis, diff, scan, browser, bundle_games,
                   filter_service>>

\* fcntl.flock(fd, LOCK_EX | LOCK_NB) (cron_scraper.py:34-38): the lock on
\* the inode of the descriptor is taken if nobody holds it, else IOError
\* and return 0.
CronFlock(p) ==
    /\ cron.proc[p].pc = "opened"
    /\ IF cron.holder[cron.proc[p].fd] = 0
       THEN cron' = [cron EXCEPT !.holder[cron.proc[p].fd] = p,
                                 !.proc[p].pc = "running"]
       ELSE cron' = [cron EXCEPT !.proc[p].pc = "skipped",
                                 !.proc[p].ret = Some(0)]
    /\ UNCHANGED <<corevars, analysis, diff, scan, browser, bundle_games,
                   filter_service>>

\* cron_scraper.py:40-103: discovery and scraping end with exit code ret.
CronPipeline(p, ret) ==
    /\ cron.proc[p].pc = "running"
    /\ cron' = [cron EXCEPT !.proc[p].pc = "finally",
                            !.proc[p].ret = Some(ret)]
    /\ UNCHANGED <<corevars, analysis, diff, scan, browser, bundle_games,
                   filter_service>>

\* flock(LOCK_UN) and close (cron_scraper.py:106-108)
CronUnlock(p) ==
    /\ cron.proc[p].pc = "finally"
    /\ cron' = [cron EXCEPT !.holder[cron.proc[p].fd] = 0,
                            !.proc[p].pc = "unlocked"]
    /\ UNCHANGED <<corevars, analysis, diff, scan, browser, bundle_games,
                   filter_service>>

\* LOCK_FILE.unlink() (cron_scraper.py:109-112): the path names nothing
\* afterwards, whichever inode it named; an error is swallowed.
CronUnlink(p) ==
    /\ cron.proc[p].pc = "unlocked"
    /\ cron' = [cron EXCEPT !.path = NoInode, !.proc[p].pc = "done"]
    /\ UNCHANGED <<corevars, analysis, diff, scan, browser, bundle_games,
                   filter_service>>

NextCron ==
    \/ \E p \in CronProcs, ok \in BOOLEAN : CronOpen(p, ok)
    \/ \E p \in CronProcs : CronFlock(p)
    \/ \E p \in CronProcs, ret \in {0, 1} : CronPipeline(p, ret)
    \/ \E p \in CronProcs : CronUnlock(p)
    \/ \E p \in CronProcs : CronUnlink(p)

SpecCron == InitCron /\ [][NextCron]_vars

----------------------------------------------------------------------------
(* Database.save_bundle on the columns games and games_count.              *)

\* A candidate: its id and its 'games' key, None when the key is absent,
\* else a list of games.
GamesCandidates ==
    [id : Ids,
     games : {None} \cup {Some(g) : g \in {<< >>, <<1>>, <<2>>, <<1, 2>>}}]

\* bundle_data.get('games', default)
GetGames(cand, default) ==
    IF cand.games = None THEN default ELSE cand.games[1]

\* database.py:241-242: the new row.
InsertGames(cand) ==
    [games |-> GetGames(cand, << >>),
     games_count |-> Len(GetGames(cand, << >>))]

\* database.py:258-259: the update of a loaded row.
UpdateGames(row, cand) ==
    [games |-> GetGames(cand, row.games),
     games_count |-> Len(GetGames(cand, << >>))]

InitGames ==
    /\ store = << >>
    /\ clock = 1
    /\ lastCall = NoCall
    /\ prevCall = NoCall
    /\ sess = << >>
    /\ store0 = << >>
    /\ run = NoRun
    /\ mapped = NoMapping
    /\ FreshScraper
    /\ analysis = NoTool /\ diff = NoTool /\ scan = NoTool
    /\ browser = NoTool /\ cron = NoTool /\ filter_service = NoTool
    /\ bundle_games = [pc |-> "open", table |-> << >>, last |-> None]

\* One save_bundle call (database.py:229-288), as far as the two columns
\* go; last is history, the candidate of the call.
SaveGames(cand) ==
    /\ bundle_games.pc = "open"
    /\ LET t == bundle_games.table
       IN  bundle_games' = [bundle_games EXCEPT
             !.table = [i \in DOMAIN t \cup {cand.id} |->
                          IF i # cand.id THEN t[i]
                          ELSE IF i \in DOMAIN t
                               THEN UpdateGames(t[i], cand)
                               ELSE InsertGames(cand)],
             !.last = Some(cand)]
    /\ UNCHANGED <<corevars, analysis, diff, scan, browser, cron,
                   filter_service>>

NextGames == \E cand \in GamesCandidates : SaveGames(cand)

SpecGames == InitGames /\ [][NextGames]_vars

----------------------------------------------------------------------------
(* One BundleFilter instance: seen_ids lives as long as the instance and   *)
(* filter_duplicates can be called on it any number of times.              *)

\* The records given to filter_duplicates: an id or none, and a name that
\* tells two records of one id apart.
FilterRecords == [id : {None} \cup {Some(i) : i \in Ids}, name : {"a", "b"}]

\* The loop of filters.py:18-26 over the first k records, starting from
\* the ids in seen: the records kept and the ids seen afterwards.
RECURSIVE UniqueSeen(_, _, _)
UniqueSeen(bundles, k, seen) ==
    IF k = 0 THEN [unique_bundles |-> << >>, seen_ids |-> seen]
    ELSE LET prev == UniqueSeen(bundles, k - 1, seen)
             b    == bundles[k]
         IN  IF b.id # None /\ b.id[1] \notin prev.seen_ids
             THEN [unique_bundles |-> Append(prev.unique_bundles, b),
                   seen_ids |-> prev.seen_ids \cup {b.id[1]}]
             ELSE prev

InitFilter ==
    /\ store = << >>
    /\ clock = 1
    /\ lastCall = NoCall
    /\ prevCall = NoCall
    /\ sess = << >>
    /\ store0 = << >>
    /\ run = NoRun
    /\ mapped = NoMapping
    /\ FreshScraper
    /\ analysis = NoTool /\ diff = NoTool /\ scan = NoTool
    /\ browser = NoTool /\ cron = NoTool /\ bundle_games = NoTool
    /\ filter_service = [pc |-> "open", seen_ids |-> {}, called |-> FALSE,
                         input |-> << >>, output |-> << >>]

\* filter_service.filter_duplicates(bundles) (filters.py:8-26); input and
\* output are history, those of the last call.
FilterCall(bundles) ==
    /\ filter_service.pc = "open"
    /\ LET r == UniqueSeen(bundles, Len(bundles), filter_service.seen_ids)
       IN  filter_service' = [filter_service EXCEPT
               !.seen_ids = r.seen_ids,
               !.called = TRUE,
               !.input = bundles,
               !.output = r.unique_bundles]
    /\ UNCHANGED <<corevars, analysis, diff, scan, browser, cron,
                   bundle_games>>

NextFilter ==
    \E n \in 0..MaxBatch : \E bundles \in [1..n -> FilterRecords] :
        FilterCall(bundles)

SpecFilter == InitFilter /\ [][NextFilter]_vars

----------------------------------------------------------------------------
(* Properties of the persistence gateway *)

\* The stored history of an optional row (empty when there is no row).
Hist(r) == IF r = None THEN << >> ELSE r[1].price_history[1]

IsPrefix(s, t) == Len(s) <= Len(t) /\ \A k \in 1..Len(s) : s[k] = t[k]

\* A price without its timestamp: what two histories are compared on.
Prices(h) == [k \in 1..Len(h) |-> <<h[k].final, h[k].discount>>]

HasFinal(cand) == cand.price # None /\ cand.price[1].final # None

\* The candidate's price differs from the last snapshot of history h.
DiffersFromLast(h, cand) ==
    \/ h = << >>
    \/ h[Len(h)].final # cand.price[1].final[1]
    \/ h[Len(h)].discount # cand.price[1].discount

\* C1: a save_bundle call whose candidate has a non-null final price appends
\* one snapshot to the stored price_history if and only if the history was
\* empty or the candidate's final price or discount differs from its last
\* snapshot; no two adjacent stored snapshots agree on final and discount.
C1_SnapshotIffChanged ==
    /\ (lastCall.n > 0 /\ HasFinal(lastCall.cand)) =>
          ( (Len(Hist(lastCall.ret)) = Len(Hist(lastCall.before)) + 1)
            <=> DiffersFromLast(Hist(lastCall.before), lastCall.cand) )
    /\ \A i \in DOMAIN store :
          LET h == store[i].price_history[1]
          IN  \A k \in 1..(Len(h) - 1) :
                 h[k].final # h[k+1].final \/ h[k].discount # h[k+1].discount

\* lastCall repeats prevCall: same id, same candidate, a non-null final.
RepeatedCall ==
    /\ prevCall.n > 0
    /\ lastCall.id = prevCall.id
    /\ lastCall.cand = prevCall.cand
    /\ HasFinal(lastCall.cand)

\* C2: saving the same valid candidate twice in a row leaves price_history
\* as the first of the two calls left it, and with exactly one snapshot when
\* the first call created the record.
C2_RepeatIsIdempotent ==
    RepeatedCall =>
        /\ Prices(Hist(lastCall.ret)) = Prices(Hist(prevCall.ret))
        /\ (prevCall.before = None => Len(Hist(lastCall.ret)) = 1)

C2_Witness ==
    /\ RepeatedCall
    /\ prevCall.before = None
    /\ Len(Hist(lastCall.ret)) = 1

\* lastCall follows a call that created the record with final 1000 /
\* discount 0, and carries final 800 / discount 20 for the same id.
ThousandThenEightHundred ==
    /\ prevCall.n > 0 /\ prevCall.before = None
    /\ lastCall.id = prevCall.id
    /\ HasFinal(prevCall.cand) /\ HasFinal(lastCall.cand)
    /\ prevCall.cand.price[1].final = Some(1000)
    /\ prevCall.cand.price[1].discount = 0
    /\ lastCall.cand.price[1].final = Some(800)
    /\ lastCall.cand.price[1].discount = 20

\* C3: price_history is append-only in call order: the history stored
\* before a save_bundle call is a prefix of the one stored after it, and
\* saving final 1000 / discount 0 and then final 800 / discount 20 leaves
\* exactly those two snapshots, in that order.
C3_AppendOnlyInCallOrder ==
    /\ lastCall.n > 0 =>
          IsPrefix(Hist(lastCall.before), Hist(lastCall.ret))
    /\ ThousandThenEightHundred =>
          Prices(Hist(lastCall.ret)) = << <<1000, 0>>, <<800, 20>> >>

\* The candidate's price.final is null: no price dict, or a null final.
NullFinal(cand) == cand.price = None \/ cand.price[1].final = None

C16_HistoryNonEmptyOncePriced ==
    \A c \in {prevCall, lastCall} :
        (c.n > 0 /\ HasFinal(c.cand)) =>
            /\ c.id \in DOMAIN store
            /\ store[c.id].price_history[1] # << >>

\* C17: first_seen is fixed when the record is created and left unchanged by
\* every later merge (first conjuncts); last_updated is the time of the
\* call after every save_bundle call (last conjunct).  The call that has
\* just returned ran at clock - 1.
C17_FirstSeenFixedLastUpdatedSet ==
    lastCall.n > 0 =>
        /\ lastCall.before = None =>
              lastCall.ret[1].first_seen = Some(clock - 1)
        /\ lastCall.before # None =>
              lastCall.ret[1].first_seen = lastCall.before[1].first_seen
        /\ lastCall.ret[1].last_updated = Some(clock - 1)

\* A third call on a record: created, merged, merged again.
C17_Witness ==
    /\ lastCall.n = 3
    /\ lastCall.before # None /\ prevCall.before # None
    /\ lastCall.id = prevCall.id
    /\ lastCall.ret[1].first_seen = Some(1)
    /\ lastCall.ret[1].last_updated = Some(3)

\* What a row shows of its price: current price and history, undated.
RowView(r) == <<r.final_price, r.discount, Prices(r.price_history[1])>>

\* The table after call c1 and then call c2 on the same id, one after the
\* other.
Serial(st, id, c1, c2) ==
    SaveResult(SaveResult(st, id, c1, clock), id, c2, clock + 1)

\* History h holds a snapshot with the price of candidate cand.
HasSnapshotOf(h, cand) ==
    \E k \in 1..Len(h) :
        /\ h[k].final = cand.price[1].final[1]
        /\ h[k].discount = cand.price[1].discount

BothDone == \A p \in Procs : sess[p].pc = "done"

\* C4: two concurrent save_bundle calls for one id leave the record as if
\* they had run one after the other in some order: neither call fails,
\* the stored record is the one of a serial order and, when the two prices
\* differ, both snapshots are in the stored history.  Concurrent calls for
\* different ids leave each record as the call alone leaves it.
C4_ConcurrentSavesSerialize ==
    BothDone =>
      IF sess[1].id = sess[2].id
      THEN LET id == sess[1].id
               c1 == sess[1].cand
               c2 == sess[2].cand
           IN  /\ ~sess[1].raised /\ ~sess[2].raised
               /\ id \in DOMAIN store
               /\ \/ RowView(store[id]) = RowView(Serial(store0, id, c1, c2)[id])
                  \/ RowView(store[id]) = RowView(Serial(store0, id, c2, c1)[id])
               /\ c1 # c2 =>
                    /\ HasSnapshotOf(store[id].price_history[1], c1)
                    /\ HasSnapshotOf(store[id].price_history[1], c2)
      ELSE \A p \in Procs :
              /\ ~sess[p].raised
              /\ RowView(store[sess[p].id]) =
                   RowView(SaveResult(store0, sess[p].id, sess[p].cand,
                                      clock)[sess[p].id])

----------------------------------------------------------------------------
(* Properties of the payload mapping *)

\* The positions of the entries that produced a record.
EmittedAt == {mapped.out[j].at : j \in 1..Len(mapped.out)}

\* C19: an upstream entry whose final and original price are both 0 produces
\* no record, in scrape_bundles_batch and in scrape_bundle_details alike, and
\* every emitted record has final > 0 or original > 0.
C19_GhostNeverEmitted ==
    mapped.pc = "done" =>
        /\ \A k \in 1..Len(mapped.store_items) :
              (FinalCents(mapped.store_items[k]) = 0
                 /\ OriginalCents(mapped.store_items[k]) = 0)
              => k \notin EmittedAt
        /\ \A j \in 1..Len(mapped.out) :
              mapped.out[j].price.final > 0 \/ mapped.out[j].price.original > 0

\* A batch response of a named ghost entry followed by a priced entry has
\* been mapped into the one record of the second.
C19_Witness ==
    /\ mapped.pc = "done" /\ mapped.kind = "batch"
    /\ Len(mapped.store_items) = 2
    /\ mapped.store_items[1].name # None
    /\ mapped.store_items[1].final_price_in_cents =
          [kind |-> "int", value |-> 0]
    /\ mapped.store_items[1].price_before_bundle_discount =
          [kind |-> "int", value |-> 0]
    /\ EmittedAt = {2}

Abs(x) == IF x < 0 THEN -x ELSE x

\* d is the percentage (original - final) / original * 100 rounded to a
\* nearest integer.
IsRoundedPct(d, final, original) ==
    2 * Abs((original - final) * 100 - d * original) <= original

\* C20: the discount of every mapped record is the rounded percentage
\* (original - final) / original * 100 of its own two amounts when
\* original > 0 and 0 otherwise, whatever discount upstream supplied;
\* original 2000 and final 1000 give 50.
C20_DiscountRecomputed ==
    mapped.pc = "done" =>
        \A j \in 1..Len(mapped.out) :
            LET p == mapped.out[j].price
            IN  /\ p.original > 0 =>
                      IsRoundedPct(p.discount, p.final, p.original)
                /\ p.original <= 0 => p.discount = 0
                /\ (p.original = 2000 /\ p.final = 1000) => p.discount = 50

\* A record of original 2000, final 1000 and discount 50 was mapped from an
\* entry for which upstream claimed a discount of 10.
C20_Witness ==
    /\ mapped.pc = "done"
    /\ \E j \in 1..Len(mapped.out) :
          /\ mapped.out[j].price.original = 2000
          /\ mapped.out[j].price.final = 1000
          /\ mapped.out[j].price.discount = 50
          /\ mapped.store_items[mapped.out[j].at].discount_pct =
                [kind |-> "int", value |-> 10]

\* C21: every record emitted by the fast path carries a discount in the
\* range 0..100, whatever the upstream final and original amounts.
C21_DiscountInRange ==
    mapped.pc = "done" =>
        \A j \in 1..Len(mapped.out) : mapped.out[j].price.discount \in 0..100

----------------------------------------------------------------------------
(* Properties of the authenticity heuristic *)

\* The finals of the first k snapshots dated within the last 30 days that
\* have discount 0.
RECURSIVE RegularObservations(_, _)
RegularObservations(h, k) ==
    IF k = 0 THEN << >>
    ELSE IF h[k].age <= 30 /\ h[k].discount = 0
         THEN Append(RegularObservations(h, k - 1), h[k].final)
         ELSE RegularObservations(h, k - 1)

AnalysedHistory ==
    IF analysis.before.price_history = None THEN << >>
    ELSE analysis.before.price_history[1]

\* C22: for a record with at least 2 snapshots, is_real is false if and only
\* if there is a snapshot within the last 30 days with discount 0 and the
\* current original price is above 1.5 times the mean final of those
\* snapshots; inflation_percent is then (original / mean - 1) * 100 rounded
\* to an integer (three snapshots of final 1000 and original 2500 give 150);
\* the call leaves the record unchanged.
C22_InflatedIffAboveMean ==
    (analysis.pc = "done" /\ Len(AnalysedHistory) >= 2) =>
        LET obs   == RegularObservations(AnalysedHistory, Len(AnalysedHistory))
            n     == Len(obs)
            total == Sum(obs)
            orig  == analysis.before.original_price
            above == n > 0 /\ orig # None /\ 2 * orig[1] * n > 3 * total
        IN  /\ analysis.result.is_real = ~above
            /\ ~analysis.result.is_real =>
                  analysis.result.inflation =
                      Some(10 * Round((orig[1] * n - total) * 100, total))
            /\ analysis.bundle = analysis.before

\* C23: for a record with fewer than 2 snapshots get_real_discount returns
\* is_real = true with the insufficient-history reason, whatever the current
\* original price.
C23_InsufficientHistoryIsReal ==
    (analysis.pc = "done" /\ Len(AnalysedHistory) < 2) =>
        /\ analysis.result.is_real
        /\ analysis.result.reason = "insufficient"

\* The record has one regular-price snapshot of final 1000 and an original
\* price of 2500.
C23_Witness ==
    /\ analysis.pc = "done"
    /\ analysis.before.price_history =
          Some(<<[age |-> 10, final |-> 1000, discount |-> 0]>>)
    /\ analysis.before.original_price = Some(2500)
    /\ analysis.result.is_real

----------------------------------------------------------------------------
(* Properties of discovery *)

\* C24: against the previously persisted known-id set (empty when there was
\* no file), added = newIds minus oldIds and removed = oldIds minus newIds:
\* they are disjoint, (oldIds minus removed) union added is newIds, and the
\* persisted bundle_ids after the run are newIds; prior {1,2,3} and scan
\* {2,3,4} give added {4} and removed {1}.
C24_DiffAgainstKnown ==
    (diff.pc = "done" /\ diff.before.kind # "unreadable") =>
        LET oldIds == diff.before.bundle_ids
            newIds == diff.new_ids
        IN  /\ diff.added = {i \in newIds : i \notin oldIds}
            /\ diff.removed = {i \in oldIds : i \notin newIds}
            /\ diff.added \cap diff.removed = {}
            /\ (oldIds \ diff.removed) \cup diff.added = newIds
            /\ diff.file.bundle_ids = newIds
            /\ (oldIds = {1, 2, 3} /\ newIds = {2, 3, 4}) =>
                  (diff.added = {4} /\ diff.removed = {1})

C24_Witness ==
    /\ diff.pc = "done"
    /\ diff.before = [kind |-> "ids", bundle_ids |-> {1, 2, 3}]
    /\ diff.new_ids = {2, 3, 4}
    /\ diff.added = {4}
    /\ diff.removed = {1}
    /\ diff.file.bundle_ids = {2, 3, 4}

----------------------------------------------------------------------------
(* Properties of the brute-force scan *)

\* The ids a response names: those of its entries that carry a name.
NamedIds(r) ==
    {r.store_items[j].id :
        j \in {j \in 1..Len(r.store_items) : r.store_items[j].name # None}}

\* The ids named by the 200 responses received so far.
NamedBySuccess ==
    UNION {NamedIds(scan.responses[k]) :
              k \in {k \in 1..Len(scan.responses) :
                         scan.responses[k].kind = "ok"}}

\* How many windows range(start, end, batch_size) has.
WindowCount ==
    IF scan.end <= scan.start THEN 0
    ELSE (scan.end - scan.start + scan.batch_size - 1) \div scan.batch_size

\* C25: a window whose request raises or answers a status other than 200
\* is neither retried nor the end of the scan: the k-th request is always
\* for the k-th window, windows being failed or not, the scan returns
\* after all of them, and it returns the ids named by the 200 responses.
C25_FailedWindowSkipped ==
    /\ \A k \in 1..Len(scan.windows) :
          scan.windows[k].first = scan.start + (k - 1) * scan.batch_size
    /\ scan.pc = "done" =>
          /\ Len(scan.windows) = WindowCount
          /\ Range(scan.valid_ids) = NamedBySuccess

\* A finished scan with a failed window followed by a window that
\* confirmed an id.
C25_Witness ==
    /\ scan.pc = "done"
    /\ \E k \in 1..Len(scan.windows), m \in 1..Len(scan.windows) :
          /\ k < m
          /\ scan.responses[k].kind \in {"raise", "status"}
          /\ scan.responses[m].kind = "ok"
          /\ NamedIds(scan.responses[m]) # {}

\* C26: the windows requested are contiguous from start, disjoint, of at
\* most batch_size ids each and, once the scan returns, cover start..end-1;
\* an id is in the result exactly when a 200 response had an entry with
\* that id and a name; the sorted id set holds no id twice.
C26_WindowsPartitionAndConfirm ==
    /\ \A k \in 1..Len(scan.windows) :
          /\ scan.windows[k].first =
                IF k = 1 THEN scan.start ELSE scan.windows[k - 1].last + 1
          /\ scan.windows[k].last >= scan.windows[k].first
          /\ scan.windows[k].last - scan.windows[k].first + 1
                <= scan.batch_size
    /\ \A k \in 1..Len(scan.windows), m \in 1..Len(scan.windows) :
          k # m =>
            (scan.windows[k].first..scan.windows[k].last)
              \cap (scan.windows[m].first..scan.windows[m].last) = {}
    /\ scan.pc = "done" =>
          /\ UNION {scan.windows[k].first..scan.windows[k].last :
                        k \in 1..Len(scan.windows)}
                = scan.start..(scan.end - 1)
          /\ \A id \in 0..(MaxScanEnd + 1) :
                /\ id \in Range(scan.valid_ids) <=> id \in NamedBySuccess
                /\ id \in Range(scan.all_ids) <=> id \in NamedBySuccess
          /\ \A a \in 1..Len(scan.all_ids), b \in 1..Len(scan.all_ids) :
                a # b => scan.all_ids[a] # scan.all_ids[b]

\* A finished scan of several windows where a 200 response had an entry
\* without a name for an id nothing else named, and where an id was
\* named twice.
C26_Witness ==
    /\ scan.pc = "done"
    /\ Len(scan.windows) >= 2
    /\ \E k \in 1..Len(scan.responses) :
          /\ scan.responses[k].kind = "ok"
          /\ \E j \in 1..Len(scan.responses[k].store_items) :
                /\ scan.responses[k].store_items[j].name = None
                /\ scan.responses[k].store_items[j].id
                      \notin scan.discovered_ids
    /\ Len(scan.valid_ids) > Cardinality(scan.discovered_ids)
    /\ scan.discovered_ids # {}

\* C27: the scan sleeps after every window but the last one, and does not
\* sleep after the last one.
C27_DelayOnlyBetweenWindows ==
    scan.pc = "done" =>
        \A k \in 1..Len(scan.slept) :
            scan.slept[k] <=> (k < Len(scan.slept))

----------------------------------------------------------------------------
(* Properties of the rendering fallback *)

\* C28: every record the fallback returns, from scrape_bundle_with_browser
\* or in the list of scrape_multiple_bundles, has needs_browser_scraping
\* false, whatever flag the mapper derived from the rendered price.
C28_FallbackFlagCleared ==
    /\ browser.ret # None => ~browser.ret[1].needs_browser_scraping
    /\ \A n \in 1..Len(browser.bundles) :
          ~browser.bundles[n].needs_browser_scraping

\* A returned list with a record whose rendered price made the mapper
\* ask for the browser.
C28_Witness ==
    /\ browser.pc = "done"
    /\ \E n \in 1..Len(browser.bundles) :
          browser.bundles[n].price[1].needs_browser_scraping

\* The positions of the input handled so far whose page rendered to a
\* complete document: a title, a price and games.
RenderedOk ==
    {n \in 1..Len(browser.handled) :
        /\ browser.handled[n].rendering.kind = "document"
        /\ browser.handled[n].rendering.doc.name # None
        /\ browser.handled[n].rendering.doc.price # None
        /\ browser.handled[n].rendering.doc.games > 0}

\* C29: between two identifiers the list holds, in input order, exactly
\* the records of the identifiers handled so far that rendered to a
\* complete document, and scrape_multiple_bundles returns only after it
\* has handled every identifier of the input, in order.
C29_FailureSkipsOneId ==
    browser.pc \in {"next", "done"} =>
        /\ Len(browser.handled) <= Len(browser.bundle_ids)
        /\ \A n \in 1..Len(browser.handled) :
              browser.handled[n].id = browser.bundle_ids[n]
        /\ browser.pc = "done" =>
              Len(browser.handled) = Len(browser.bundle_ids)
        /\ Len(browser.bundles) = Cardinality(RenderedOk)
        /\ \A n \in RenderedOk :
              LET rec == browser.bundles[
                             Cardinality({m \in RenderedOk : m <= n})]
              IN  /\ rec.id = browser.bundle_ids[n]
                  /\ rec.name = browser.handled[n].rendering.doc.name
                  /\ rec.games = browser.handled[n].rendering.doc.games

\* A returned list after a navigation error on the first identifier, an
\* incomplete document on the second, and records for the third and for
\* the fourth, which is in the next batch.
C29_Witness ==
    /\ browser.pc = "done"
    /\ Len(browser.handled) >= 4
    /\ browser.handled[1].rendering.kind = "goto"
    /\ browser.handled[2].rendering.kind = "document"
    /\ 2 \notin RenderedOk
    /\ {3, 4} \subseteq RenderedOk
    /\ Len(browser.bundles) = 2

\* C30: at most one page is open at any moment, none is open between two
\* identifiers or when scrape_multiple_bundles returns, and the batches
\* taken from the input hold at most 3 identifiers each, in input order.
C30_OnePageAtATime ==
    /\ browser.open <= 1
    /\ browser.pc \in {"next", "done"} => browser.open = 0
    /\ browser.pc = "page" => browser.open = 1
    /\ \A n \in 1..Len(browser.batches) :
          /\ Len(browser.batches[n]) \in 1..3
          /\ \A m \in 1..Len(browser.batches[n]) :
                browser.batches[n][m] = browser.bundle_ids[3 * (n - 1) + m]
    /\ browser.pc = "done" =>
          3 * Len(browser.batches) >= Len(browser.bundle_ids)

\* A returned call of two batches that left a page by each exit: a
\* record, a record that did not validate, an exception of the
\* navigation.
C30_Witness ==
    /\ browser.pc = "done"
    /\ Len(browser.batches) = 2
    /\ browser.open = 0
    /\ RenderedOk # {}
    /\ \E n \in 1..Len(browser.handled) :
          browser.handled[n].rendering.kind = "goto"
    /\ \E n \in 1..Len(browser.handled) :
          /\ browser.handled[n].rendering.kind = "document"
          /\ n \notin RenderedOk

\* C31: a rendered document with a title and a price that parses, and with
\* no games, gives a record: scrape_bundle_with_browser returns it.
C31_EmptyGamesStillEmitted ==
    ( /\ browser.pc = "finally"
      /\ browser.rendering.kind = "document"
      /\ browser.rendering.doc.name # None
      /\ browser.rendering.doc.price # None
      /\ browser.rendering.doc.price[1].final > 0
      /\ browser.rendering.doc.games = 0 )
    => browser.ret # None

----------------------------------------------------------------------------
(* Properties of the stored price and its history *)

\* C36: whenever a stored row has a final_price, its stored price_history
\* ends with a snapshot of that final price and of the stored discount.
C36_HeadOfHistoryIsCurrentPrice ==
    \A i \in DOMAIN store :
        store[i].final_price # None =>
            LET h == store[i].price_history[1]
            IN  /\ h # << >>
                /\ h[Len(h)].final = store[i].final_price[1]
                /\ Some(h[Len(h)].discount) = store[i].discount

\* C37: a snapshot that a save_bundle call added to the stored history
\* carries the currency of the price of that call's candidate.
C37_SnapshotHasCandidateCurrency ==
    ( /\ lastCall.n > 0
      /\ Len(Hist(lastCall.ret)) = Len(Hist(lastCall.before)) + 1 )
    => LET h == Hist(lastCall.ret)
       IN  h[Len(h)].currency = Some(lastCall.cand.price[1].currency)

\* C38: in every stored row games_count is the number of entries of the
\* stored games list.
C38_GamesCountMatchesGames ==
    \A i \in DOMAIN bundle_games.table :
        bundle_games.table[i].games_count
            = Len(bundle_games.table[i].games)

----------------------------------------------------------------------------
(* Properties of the duplicate filter *)

\* The first occurrence of each id among the first k records of s, in the
\* order of s.
RECURSIVE FirstOccurrences(_, _)
FirstOccurrences(s, k) ==
    IF k = 0 THEN << >>
    ELSE IF s[k].id # None /\ \A j \in 1..(k - 1) : s[j].id # s[k].id
         THEN Append(FirstOccurrences(s, k - 1), s[k])
         ELSE FirstOccurrences(s, k - 1)

\* C39: every filter_duplicates call, the first on an instance or a later
\* one, returns the first occurrence of each id of its input, in input
\* order.
C39_FirstOccurrencePerCall ==
    filter_service.called =>
        filter_service.output
            = FirstOccurrences(filter_service.input,
                               Len(filter_service.input))

----------------------------------------------------------------------------
(* Properties of the block *)

\* C40: while a block is running, a step never moves blocked_until to an
\* earlier time.
C40_BlockNeverShortened ==
    [][ now < blocked_until => blocked_until' >= blocked_until ]_vars

----------------------------------------------------------------------------
(* Properties of the limiter under load *)

\* C33: no scrape_bundle_details call sends its request while the scraper
\* is blocked, whether it starts during the block or was queued for a
\* permit when the block was set.
C33_NoDetailsRequestWhileBlocked ==
    [][ \A c \in Callers :
          ( /\ call[c].pc # "http"
            /\ call'[c].pc = "http"
            /\ call'[c].kind = "details" )
          => ~(now < blocked_until) ]_vars

\* No call is between its start and its return.
NoCallRunning == \A c \in Callers : call[c].pc \in {"idle", "done"}

\* C32: under steady load, with every request answered and every sleep
\* ending, a call that waits for a permit returns, and all the permits are
\* free again whenever no call is running.
C32_NoStarvation ==
    /\ [](NoCallRunning => sem = MAX_CONCURRENT_REQUESTS)
    /\ \A c \in Callers :
          (call[c].pc = "acquire") ~> (call[c].pc = "done")

\* A call queued for a permit while the permits are held, one of them by a
\* call in its throttle sleep.
C32_Witness ==
    /\ sem = 0
    /\ \E c \in Callers : call[c].pc = "acquire"
    /\ \E c \in Callers : call[c].pc = "sleep_throttle"

----------------------------------------------------------------------------
(* Properties of the incremental run *)

\* C34: once scrape_incremental has deleted bundle_changes.json, every
\* added id was carried by a batch request that upstream answered with a
\* 200.
C34_NoAddedIdLost ==
    (run.path = "incremental" /\ run.pc = "done") =>
        \A id \in 1..run.added :
            /\ id \in run.sent.first..run.sent.last
            /\ run.status = Some(200)

----------------------------------------------------------------------------
(* Properties of the cron lock *)

\* C35: at most one invocation of check_and_run at a time is past the
\* lock and running the pipeline, and an invocation that did not get the
\* lock returns 0.
C35_CronMutualExclusion ==
    /\ Cardinality({p \in CronProcs : cron.proc[p].pc = "running"}) <= 1
    /\ \A p \in CronProcs :
          cron.proc[p].pc = "skipped" => cron.proc[p].ret = Some(0)

----------------------------------------------------------------------------
(* Properties of the pipeline runs *)

\* C13: in main_with_db.main a save_bundle call that raises does not abort
\* the run: the run ends with every record of the batch passed to
\* save_bundle.
C13_SaveFailureIsolated ==
    run.path = "main" =>
        /\ run.pc # "aborted"
        /\ run.pc = "done" => run.k = Len(run.batch) + 1

\* A valid candidate: id, name and a non-null price.final.
ValidCandidate(b) ==
    b.id # None /\ b.name # None /\ b.price # None
        /\ b.price[1].final # None

HistLen(st, i) ==
    IF i \in DOMAIN st THEN Len(st[i].price_history[1]) ELSE 0

\* C15: a step that makes the stored price_history of a bundle longer is the
\* save of a valid candidate for that bundle; a candidate that is not valid
\* never adds a snapshot.
C15_InvalidNeverSnapshots ==
    [][ \A i \in Ids :
          HistLen(store', i) > HistLen(store, i) =>
              /\ run.pc = "saving" /\ run.k <= Len(run.batch)
              /\ ValidCandidate(run.batch[run.k])
              /\ run.batch[run.k].id = Some(i) ]_vars

\* A finished run that was handed a nameless record with a price for
\* bundle 2 and a valid record for bundle 1.
C15_Witness ==
    /\ run.pc = "done"
    /\ run.saved_count > 0
    /\ store0 = << >>
    /\ 2 \notin DOMAIN store
    /\ \E k \in 1..Len(run.bundles) :
          /\ run.bundles[k].id = Some(2)
          /\ run.bundles[k].name = None
          /\ run.bundles[k].price # None
          /\ run.bundles[k].price[1].final # None

\* C18: no step of a run removes a stored record: the set of stored ids
\* never shrinks, through the save loop and through the processing of the
\* removed ids of a diff.
C18_StoredIdsNeverShrink ==
    [][ \A i \in DOMAIN store : i \in DOMAIN store' ]_vars

\* An incremental run over a diff that lists stored bundle 1 as removed has
\* saved a record and ended.
C18_Witness ==
    /\ run.pc = "done"
    /\ run.path = "incremental"
    /\ 1 \in run.removed
    /\ 1 \in DOMAIN store0
    /\ 1 \in DOMAIN store
    /\ run.saved_count > 0

----------------------------------------------------------------------------
(* Properties of the fetch orchestrator *)

\* The block a throttling response asks for, in seconds: the Retry-After
\* hint of a 429 (60 without a hint), 120 for a 403.
ServerRetry(r) ==
    IF r.status = 403 THEN 120
    ELSE IF r.retry.kind = "absent" THEN 60 ELSE r.retry.value

Throttling(r) == r.status \in {429, 403}

\* Caller c sends its upstream request in this step.
Sends(c) == call[c].pc \in {"idle", "acquire"} /\ call'[c].pc = "http"

\* C5: while the block set by a batch call's 429 response with a
\* Retry-After of 30 (or any other number of seconds) is running, no
\* scrape_bundles_batch call sends an upstream request.
C5_BatchShortCircuitsWhileBlocked ==
    [][ (/\ blockBy.kind = "batch"
         /\ blockBy.status = 429
         /\ now < blocked_until)
        => \A c \in Callers : ~(Sends(c) /\ call'[c].kind = "batch") ]_vars

\* Callers that hold a permit: request in flight, or throttle sleep inside
\* the `async with`.
Holders == {c \in Callers : call[c].pc \in {"http", "sleep_throttle"}}

InFlight == {c \in Callers : call[c].pc = "http"}

\* C6: at every moment at most MAX_CONCURRENT_REQUESTS upstream calls are in
\* flight, whatever mix of batch and details calls runs.
C6_InFlightBounded ==
    /\ Cardinality(InFlight) <= MAX_CONCURRENT_REQUESTS
    /\ Cardinality(Holders) + sem = MAX_CONCURRENT_REQUESTS

C6_Witness ==
    /\ Cardinality(InFlight) = MAX_CONCURRENT_REQUESTS
    /\ \E c \in Callers : call[c].pc = "acquire"
    /\ \E c \in InFlight : call[c].kind = "batch"
    /\ \E c \in InFlight : call[c].kind = "details"

CeilDiv(n, d) == (n + d - 1) \div d

\* C7: scrape_all_bundles on n identifiers issues exactly ceil(n/100) batch
\* calls, over consecutive slices in order, each of at most 100 identifiers,
\* every identifier in exactly one call.
C7_BatchCeiling ==
    /\ \A k \in 1..Len(fa.issued) :
          fa.issued[k].last - fa.issued[k].first + 1 \in 1..100
    /\ fa.pc = "done" =>
          /\ Len(fa.issued) = CeilDiv(fa.n, 100)
          /\ \A k \in 1..(Len(fa.issued) - 1) :
                fa.issued[k + 1].first = fa.issued[k].last + 1
          /\ \A j \in 1..fa.n :
                Cardinality({k \in 1..Len(fa.issued) :
                    fa.issued[k].first <= j /\ j <= fa.issued[k].last}) = 1

C7_Witness ==
    /\ fa.pc = "done"
    /\ fa.n = 250
    /\ fa.issued = << [first |-> 1, last |-> 100],
                      [first |-> 101, last |-> 200],
                      [first |-> 201, last |-> 250] >>

\* The numbers of the first k batches whose call got a 200, in order.
RECURSIVE Succeeded(_, _)
Succeeded(resp, k) ==
    IF k = 0 THEN << >>
    ELSE IF resp[k] = 200 THEN Append(Succeeded(resp, k - 1), k)
         ELSE Succeeded(resp, k - 1)

\* C11: in scrape_all_bundles a batch whose call fails (exception, non-200
\* status) is not requested again, every later batch is still issued, and
\* the returned list is the concatenation, in batch order, of the records of
\* the batches that succeeded.
C11_FailedBatchDropped ==
    /\ \A k \in 1..(Len(fa.issued) - 1) :
          fa.issued[k + 1].first = fa.issued[k].last + 1
    /\ fa.got = Succeeded(fa.resp, Len(fa.resp))
    /\ fa.pc = "done" =>
          /\ Len(fa.issued) = CeilDiv(fa.n, batch_size)
          /\ fa.n > 0 => fa.issued[Len(fa.issued)].last = fa.n

C11_Witness ==
    /\ fa.pc = "done"
    /\ fa.n = 250
    /\ fa.resp = <<200, NetworkError, 200>>
    /\ fa.got = <<1, 3>>
    /\ Len(fa.issued) = 3

\* A transient upstream failure: a 5xx status, a timeout or network error.
Transient(r) == r.status \in {500, NetworkError}

\* C12: scrape_bundle_details returns None on a transient upstream failure
\* only after MAX_RETRIES attempts have failed.
C12_DetailsRetries ==
    [][ \A c \in Callers, r \in Responses :
          (/\ Respond(c, r)
           /\ call[c].kind = "details"
           /\ Transient(r)
           /\ call'[c].pc = "done")
          => call'[c].attempts = MAX_RETRIES ]_vars

\* C9: a 429 response makes blocked_until the time of the response plus the
\* Retry-After value (60 without a hint), a 403 response the time of the
\* response plus 120, and the call ends with an empty result.
C9_ThrottleSetsBlock ==
    [][ \A c \in Callers :
          /\ \A r \in Responses :
                (Respond(c, r) /\ Throttling(r)) =>
                    /\ blocked_until' = now + ServerRetry(r)
                    /\ now' < blocked_until' \/ ServerRetry(r) = 0
          /\ \A r \in Responses :
                (Respond(c, r) /\ Throttling(r) /\ call'[c].pc = "done")
                    => call'[c].result = "empty"
          /\ WakeThrottle(c) => call'[c].result = "empty" ]_vars

\* C10: a step that moves blocked_until is the handling of a throttling
\* response, and it moves it no further than the time of that response plus
\* that response's retry duration.
C10_BlockNotAccumulated ==
    [][ blocked_until' # blocked_until =>
          \E c \in Callers, r \in Responses :
              /\ Respond(c, r)
              /\ Throttling(r)
              /\ blocked_until' <= now + ServerRetry(r) ]_vars

\* Two callers are both in their throttle sleep, the second response having
\* come while the block of the first was running.
C10_Witness ==
    \E b, c \in Callers :
        /\ b # c
        /\ call[b].pc = "sleep_throttle" /\ call[c].pc = "sleep_throttle"
        /\ call[b].wake > call[c].wake
        /\ now < call[c].wake
        /\ blocked_until = call[c].wake

====
